---- MODULE Spec2Model ----
(***************************************************************************)
(* A model of src/src/services/massive_data_collector.py: the collection - *)
(* extraction - consolidation - validation pipeline run by                 *)
(* MassiveDataCollector.collect_massive_data on the module-level collector *)
(* instance.                                                               *)
(*                                                                         *)
(* One invocation of collect_massive_data is a "run".  The orchestrating   *)
(* thread of a run is a program counter pc[r]; the worker tasks of the     *)
(* ThreadPoolExecutor of the current phase are the futures of the run.     *)
(* The external collaborators (search adapters, social adapters, the deep  *)
(* navigator, the content extractor, the file system) are the environment: *)
(* their outcomes are chosen nondeterministically, within the budgets of   *)
(* env.  salvar_etapa / salvar_erro (step logging, not under src/) are     *)
(* taken to record the step and return: they change no state of the        *)
(* collector.                                                              *)
(***************************************************************************)
EXTENDS Integers, Sequences, FiniteSets, TLC

(***************************************************************************)
(* Bounds of the model                                                     *)
(***************************************************************************)
\* invocations of collect_massive_data on the collector instance
MaxRuns == 2
\* items in one adapter response
MaxHits == 1
\* events of the environment over a behaviour, beyond which every adapter
\* returns no item, the extractor no text, every call returns in time and
\* the snapshot file is written.  An event is: an item in an adapter
\* response, a text the extractor returns, a collaborator call that raises
\* or never returns, a task that outlasts its timeout
MaxEvents == 2

\* the events of the environment when the invocations interleave
MaxEventsConc == 1

(***************************************************************************)
(* Values                                                                  *)
(***************************************************************************)
\* a local that is not yet assigned
Unset == <<>>

Runs == 1..MaxRuns

\* the arguments the caller passes to each invocation: every invocation has
\* a query and a session id of its own
ArgsOf(r) == [query |-> <<"query", r>>, session_id |-> <<"session", r>>]

\* the url of a found item; "" is an item without url
Urls == {"u1", ""}

\* futures dict of _collect_massive_web_data, in insertion order
WebProviders == <<"exa", "google", "serper", "bing", "duckduckgo">>

\* platforms of _collect_massive_social_data, in order
Platforms == <<"youtube", "twitter", "linkedin", "instagram", "tiktok", "facebook">>

Range(s) == {s[i] : i \in DOMAIN s}

\* the python dict {}.  It also stands for the None a function returns where
\* the caller expects a dict: the collector tests both for truth only
EmptyDict == [k \in {} |-> TRUE]

\* dict.get(key, default)
Get(d, key, default) == IF key \in DOMAIN d THEN d[key] ELSE default

RECURSIVE SumSeq(_)
SumSeq(s) == IF s = <<>> THEN 0 ELSE Head(s) + SumSeq(Tail(s))

RECURSIVE SumOver(_, _)
\* sum of f[k] over the keys k of the set S
SumOver(f, S) ==
    IF S = {} THEN 0
    ELSE LET k == CHOOSE x \in S : TRUE IN f[k] + SumOver(f, S \ {k})

\* the lists over S of length at most n
SeqsUpTo(S, n) == UNION {[1..m -> S] : m \in 0..n}

(***************************************************************************)
(* State                                                                   *)
(***************************************************************************)
VARIABLES
    \* self.collection_stats of the one collector instance: the scalar entries
    collection_stats,
    \* the dict object collection_stats['sources_by_provider']
    sources_by_provider,
    \* the list object collection_stats['quality_scores']
    quality_scores,
    \* the orchestrating thread of each invocation
    pc,
    \* arguments of the invocation: query, session_id
    args,
    \* the futures of the pool of the current phase: key -> future
    futures,
    \* the keys of futures in insertion order, and the position of the
    \* "for ... in futures.items()" loop
    pool_keys,
    cursor,
    \* locals of collect_massive_data and of the phase it is in
    web_results,
    social_results,
    websailor_data,
    all_urls,
    extracted_content,
    extraction_result,
    massive_json,
    json_file_path,
    validation_results,
    \* what collect_massive_data returned, and the exception it raised
    collection_result,
    raised,
    \* the environment: the events it may still produce, whether the exa
    \* client is configured (exa_client.is_available()), how many invocations
    \* may be in progress at once, and the order in which worker tasks end
    env,
    \* history: collection_stats, as a value, when the invocation began
    \* (.invoke) and when its current phase began (.phase)
    stats_before,
    \* the progress_callback argument of each invocation, with the steps it
    \* has been called with
    progress_callback,
    \* history: the calls of the deep navigator each invocation has made
    websailor_calls,
    \* one invocation of enhanced_analysis_engine's
    \* generate_enhanced_gigantic_analysis: where it is, its arguments, the
    \* values of its stages, and the calls it has made
    analysis

vars == <<collection_stats, sources_by_provider, quality_scores, pc, args,
          futures, pool_keys, cursor, web_results, social_results,
          websailor_data, all_urls, extracted_content, extraction_result,
          massive_json, json_file_path, validation_results,
          collection_result, raised, env, stats_before, progress_callback,
          websailor_calls, analysis>>

\* the whole of self.collection_stats, as a value
StatsValue ==
    [web_sources |-> collection_stats.web_sources,
     social_sources |-> collection_stats.social_sources,
     youtube_sources |-> collection_stats.youtube_sources,
     total_content_chars |-> collection_stats.total_content_chars,
     extraction_time |-> collection_stats.extraction_time,
     sources_by_provider |-> sources_by_provider,
     quality_scores |-> quality_scores]

\* MassiveDataCollector.__init__
NewCollectionStats ==
    [web_sources |-> 0,
     social_sources |-> 0,
     youtube_sources |-> 0,
     total_content_chars |-> 0,
     extraction_time |-> 0]

\* a future as executor.submit returns it.  status: running | done | hung
\* (the collaborator call never returns).  collab records what the
\* collaborator did: pending | ok | raised | none (the task calls none).
\* timed_out: future.result(timeout) of the orchestrator has expired on it.
\* fetched: the text the extractor returned to the task, if it returned one.
NewFuture ==
    [status |-> "running", result |-> Unset, collab |-> "pending",
     timed_out |-> FALSE, fetched |-> Unset]

\* the steps collect_massive_data reports to progress_callback, lines 62-105
Checkpoints == <<1, 2, 4, 6, 8, 10, 11, 12>>

\* progress_callback = None (line 47)
NoCallback == [kind |-> "none", at |-> 0, calls |-> <<>>]

\* the callables a caller may pass: one that returns at every step, and one
\* that raises at the step .at; .calls are the steps it has been called with
ProgressCallbacks ==
    {[kind |-> "returns", at |-> 0, calls |-> <<>>]}
    \cup {[kind |-> "raises", at |-> Checkpoints[i], calls |-> <<>>] :
            i \in DOMAIN Checkpoints}

\* generate_enhanced_gigantic_analysis has not been invoked
NoAnalysis ==
    [pc |-> "idle", data |-> EmptyDict,
     progress_callback |-> [kind |-> "none", at |-> 0],
     callback_calls |-> <<>>, calls |-> <<>>, stages |-> <<>>, failed |-> 0,
     results |-> EmptyDict, drivers_result |-> Unset,
     architect_drivers |-> <<>>,
     result |-> Unset, raised |-> Unset]

InitWith(parallel, order, events, callbacks) ==
    /\ collection_stats = NewCollectionStats
    /\ sources_by_provider = EmptyDict
    /\ quality_scores = <<>>
    /\ pc = [r \in Runs |-> "idle"]
    /\ args = [r \in Runs |-> Unset]
    /\ futures = [r \in Runs |-> EmptyDict]
    /\ pool_keys = [r \in Runs |-> <<>>]
    /\ cursor = [r \in Runs |-> 1]
    /\ web_results = [r \in Runs |-> Unset]
    /\ social_results = [r \in Runs |-> Unset]
    /\ websailor_data = [r \in Runs |-> Unset]
    /\ all_urls = [r \in Runs |-> <<>>]
    /\ extracted_content = [r \in Runs |-> <<>>]
    /\ extraction_result = [r \in Runs |-> Unset]
    /\ massive_json = [r \in Runs |-> Unset]
    /\ json_file_path = [r \in Runs |-> Unset]
    /\ validation_results = [r \in Runs |-> Unset]
    /\ collection_result = [r \in Runs |-> Unset]
    /\ raised = [r \in Runs |-> Unset]
    /\ \E available \in BOOLEAN :
        env = [events |-> events, exa_available |-> available,
               parallel |-> parallel, order |-> order, texts |-> "samples",
               callbacks |-> callbacks]
    /\ stats_before = [r \in Runs |-> Unset]
    /\ progress_callback = [r \in Runs |-> NoCallback]
    /\ analysis = NoAnalysis
    /\ websailor_calls = [r \in Runs |-> <<>>]

\* the invocations follow one another, and the callers pass no callback
Init == InitWith(1, "cursor", MaxEvents, {NoCallback})

Active(r) == pc[r] \notin {"idle", "returned", "raised"}

\* The threads of the invocations are switched between the phases of a run:
\* while a run is inside one of its pools, the other invocation waits.
\* Interleavings within a pool phase are left out; every behaviour that is
\* kept is one the threads can produce.
Scheduled(r) ==
    \A q \in Runs \ {r} :
        pc[q] \notin {"web_collect", "social_collect", "extract_collect"}

(***************************************************************************)
(* collect_massive_data, lines 42-67: entry, and the calls of the progress *)
(* callback between the phases                                             *)
(***************************************************************************)
\* the exception a callback raises when called with step: what its text
\* holds is the callback's affair
CallbackError(step) == [text |-> {}, callback_step |-> step]

RECURSIVE NotifyTwice(_, _)
\* a caller of the callback that reports every step twice
NotifyTwice(cb, steps) ==
    IF steps = <<>> \/ cb.kind = "none" THEN cb
    ELSE LET called == [cb EXCEPT !.calls = Append(@, Head(steps))] IN
         IF cb.kind = "raises" /\ cb.at = Head(steps) THEN called
         ELSE NotifyTwice([called EXCEPT !.calls = Append(@, Head(steps))],
                          Tail(steps))

RECURSIVE Notify(_, _)
\* "if progress_callback: progress_callback(step, ...)" for the steps, one
\* after the other, up to the first call that raises
Notify(cb, steps) ==
    IF steps = <<>> \/ cb.kind = "none" THEN cb
    ELSE LET called == [cb EXCEPT !.calls = Append(@, Head(steps))] IN
         IF cb.kind = "raises" /\ cb.at = Head(steps) THEN called
         ELSE Notify(called, Tail(steps))

\* the last call of the callback raised
CallbackRaised(cb) ==
    cb.kind = "raises" /\ cb.calls # <<>> /\ cb.calls[Len(cb.calls)] = cb.at

\* The orchestrating thread calls the callback with the steps and enters
\* the next phase; an exception of the callback is caught by the handler of
\* line 136, as any exception of the try block is
Checkpoint(r, cb, steps, next_pc) ==
    LET after == Notify(cb, steps) IN
    /\ progress_callback' = [progress_callback EXCEPT ![r] = after]
    /\ IF CallbackRaised(after)
       THEN /\ pc' = [pc EXCEPT ![r] = "except"]
            /\ raised' = [raised EXCEPT
                    ![r] = CallbackError(after.calls[Len(after.calls)])]
       ELSE /\ pc' = [pc EXCEPT ![r] = next_pc]
            /\ UNCHANGED raised

Invoke(r) ==
    /\ Scheduled(r)
    /\ pc[r] = "idle"
    /\ \A q \in Runs : q < r => pc[q] # "idle"
    /\ Cardinality({q \in Runs : Active(q)}) < env.parallel
    /\ args' = [args EXCEPT ![r] = ArgsOf(r)]
    /\ \E cb \in env.callbacks : Checkpoint(r, cb, <<1, 2>>, "web")
    /\ stats_before' = [stats_before EXCEPT
            ![r] = [invoke |-> StatsValue, phase |-> StatsValue]]
    /\ UNCHANGED <<analysis, websailor_calls,
                   massive_json, json_file_path, validation_results,
                   collection_result,
                   collection_stats, sources_by_provider, quality_scores,
                   futures, pool_keys, cursor, web_results, social_results,
                   websailor_data, all_urls,
                   extracted_content, extraction_result, env>>

(***************************************************************************)
(* The pool of a phase                                                     *)
(***************************************************************************)
\* Future.result(timeout) returns: the task is done
ResultReady(r) ==
    /\ cursor[r] <= Len(pool_keys[r])
    /\ futures[r][pool_keys[r][cursor[r]]].status = "done"

\* Future.result(timeout) raises TimeoutError: the timeout expired on a task
\* that is not done.  A task that never returns always runs into it.
ResultTimesOut(r) ==
    /\ cursor[r] <= Len(pool_keys[r])
    /\ LET f == futures[r][pool_keys[r][cursor[r]]] IN
        \/ f.status = "hung"
        \/ f.status = "running" /\ env.events > 0

\* the budget after a timeout on future f
AfterTimeout(f) ==
    IF f.status = "running" THEN [env EXCEPT !.events = @ - 1] ELSE env

\* a pool whose orchestrator leaves the with block without waiting
PoolLeft(r) == TRUE

\* ThreadPoolExecutor.__exit__: shutdown(wait=True) returns once every
\* submitted task has finished
PoolDrained(r) ==
    \A k \in DOMAIN futures[r] : futures[r][k].status = "done"

\* a timeout that is answered by submitting the task again
Resubmitted(f) == NewFuture

\* the future of key k, marked as timed out
TimedOut(f) == [f EXCEPT !.timed_out = TRUE]

\* the worker task of key k of run r is running
Running(r, k) == k \in DOMAIN futures[r] /\ futures[r][k].status = "running"

\* The worker tasks of the web and social pools read and write nothing but
\* their own future, so the orchestrator cannot tell in which order they
\* end.  Unless env.order = "any", such a task is let run to its end when
\* the orchestrator waits for it, or after the orchestrator gave up on it.
\* (A worker of the extraction pool that appends to quality_scores ends at
\* any time.)
MayEndNow(r, k) ==
    \/ env.order = "any"
    \/ futures[r][k].timed_out
    \/ cursor[r] <= Len(pool_keys[r]) /\ pool_keys[r][cursor[r]] = k

(***************************************************************************)
(* The environment: what a collaborator call may do                        *)
(***************************************************************************)
\* a search hit as an adapter returns it
Hit(u, src) == [url |-> u, source |-> src]

\* the responses of a web search adapter: a list of hits, or an exception
WebAdapterOutcomes(p) ==
    {[kind |-> "ok", value |-> [i \in DOMAIN l |-> Hit(l[i], p)]] :
        l \in {x \in SeqsUpTo(Urls, MaxHits) : Len(x) <= env.events}}
    \cup (IF env.events > 0 THEN {[kind |-> "raise", value |-> <<>>]} ELSE {})

\* the budget after a collaborator outcome that returned n items
AfterOutcome(out, n) ==
    IF out.kind = "raise" THEN [env EXCEPT !.events = @ - 1]
    ELSE [env EXCEPT !.events = @ - n]

(***************************************************************************)
(* _collect_massive_web_data, lines 141-191                                *)
(***************************************************************************)
\* lines 144-171: the result mapping, and one task per provider (exa only
\* when exa_client.is_available())
WebSubmit(r) ==
    /\ Scheduled(r)
    /\ pc[r] = "web"
    /\ LET keys == IF env.exa_available THEN WebProviders ELSE Tail(WebProviders) IN
        /\ pool_keys' = [pool_keys EXCEPT ![r] = keys]
        /\ futures' = [futures EXCEPT ![r] = [k \in Range(keys) |-> NewFuture]]
    /\ web_results' = [web_results EXCEPT ![r] =
            [results |-> [p \in Range(WebProviders) |-> <<>>],
             total_web_sources |-> 0]]
    /\ cursor' = [cursor EXCEPT ![r] = 1]
    /\ pc' = [pc EXCEPT ![r] = "web_collect"]
    /\ stats_before' = [stats_before EXCEPT ![r].phase = StatsValue]
    /\ UNCHANGED <<analysis, websailor_calls, progress_callback,
                   massive_json, json_file_path, validation_results,
                   collection_result, raised,
                   collection_stats, sources_by_provider, quality_scores,
                   args, social_results, websailor_data, all_urls,
                   extracted_content, extraction_result, env>>

\* _search_exa_massive ... _search_duckduckgo_massive, lines 468-532: the
\* value of the task, given what the adapter did: an exception becomes []
SearchMassive(p, out) ==
    IF p = "duckduckgo" THEN <<>>
    ELSE IF out.kind = "ok" THEN out.value
    ELSE <<>>

\* a worker task of the web pool runs to its end
WebTaskFinish(r, p) ==
    /\ Scheduled(r)
    /\ pc[r] \in {"web_collect", "social"}
    /\ Running(r, p)
    /\ MayEndNow(r, p)
    /\ \E out \in (IF p = "duckduckgo"
                    THEN {[kind |-> "none", value |-> <<>>]}
                    ELSE WebAdapterOutcomes(p)) :
        /\ futures' = [futures EXCEPT ![r][p] =
                [@ EXCEPT !.status = "done",
                          !.result = SearchMassive(p, out),
                          !.collab = out.kind]]
        /\ env' = IF out.kind = "none" THEN env
                  ELSE AfterOutcome(out, Len(SearchMassive(p, out)))
    /\ UNCHANGED <<analysis, websailor_calls, progress_callback,
                   massive_json, json_file_path, validation_results,
                   collection_result, raised,
                   collection_stats, sources_by_provider, quality_scores, pc,
                   args, pool_keys, cursor, web_results, social_results,
                   websailor_data, all_urls,
                   extracted_content, extraction_result, stats_before>>

\* lines 176-180: the result of the provider at the cursor
WebCollect(r) ==
    /\ Scheduled(r)
    /\ pc[r] = "web_collect"
    /\ ResultReady(r)
    /\ LET provider == pool_keys[r][cursor[r]]
           results == futures[r][provider].result
       IN
        /\ web_results' = [web_results EXCEPT
                ![r].results[provider] = results,
                ![r].total_web_sources = @ + Len(results)]
        /\ sources_by_provider' =
                [p \in DOMAIN sources_by_provider \cup {provider} |->
                    IF p = provider THEN Len(results) ELSE sources_by_provider[p]]
    /\ cursor' = [cursor EXCEPT ![r] = @ + 1]
    /\ UNCHANGED <<analysis, websailor_calls, progress_callback,
                   massive_json, json_file_path, validation_results,
                   collection_result, raised,
                   collection_stats, quality_scores, pc, args, futures,
                   pool_keys, social_results, websailor_data, all_urls,
                   extracted_content, extraction_result, env, stats_before>>

\* a handler of the timeout that records no count for the provider
WebTimeoutUnrecorded(r) ==
    /\ Scheduled(r)
    /\ pc[r] = "web_collect"
    /\ ResultTimesOut(r)
    /\ LET provider == pool_keys[r][cursor[r]] IN
        /\ web_results' = [web_results EXCEPT ![r].results[provider] = <<>>]
        /\ UNCHANGED sources_by_provider
        /\ futures' = [futures EXCEPT ![r][provider] = TimedOut(@)]
        /\ env' = AfterTimeout(futures[r][provider])
    /\ cursor' = [cursor EXCEPT ![r] = @ + 1]
    /\ UNCHANGED <<analysis, websailor_calls, progress_callback,
                   massive_json, json_file_path, validation_results,
                   collection_result, raised,
                   collection_stats, quality_scores, pc, args, pool_keys,
                   social_results, websailor_data, all_urls,
                   extracted_content, extraction_result, stats_before>>

\* lines 181-184: future.result(timeout=120) raised
WebTimeout(r) ==
    /\ Scheduled(r)
    /\ pc[r] = "web_collect"
    /\ ResultTimesOut(r)
    /\ LET provider == pool_keys[r][cursor[r]] IN
        /\ web_results' = [web_results EXCEPT ![r].results[provider] = <<>>]
        /\ sources_by_provider' =
                [p \in DOMAIN sources_by_provider \cup {provider} |->
                    IF p = provider THEN 0 ELSE sources_by_provider[p]]
        /\ futures' = [futures EXCEPT ![r][provider] = TimedOut(@)]
        /\ env' = AfterTimeout(futures[r][provider])
    /\ cursor' = [cursor EXCEPT ![r] = @ + 1]
    /\ UNCHANGED <<analysis, websailor_calls, progress_callback,
                   massive_json, json_file_path, validation_results,
                   collection_result, raised,
                   collection_stats, quality_scores, pc, args, pool_keys,
                   social_results, websailor_data, all_urls,
                   extracted_content, extraction_result, stats_before>>

\* a web orchestrator that returns after its loop, without waiting for the
\* tasks it gave up on
WebReturnEarly(r) ==
    /\ Scheduled(r)
    /\ pc[r] = "web_collect"
    /\ cursor[r] > Len(pool_keys[r])
    /\ collection_stats' = [collection_stats EXCEPT
            !.web_sources = web_results[r].total_web_sources]
    /\ Checkpoint(r, progress_callback[r], <<4>>, "social")
    /\ UNCHANGED <<analysis, websailor_calls,
                   massive_json, json_file_path, validation_results,
                   collection_result,
                   sources_by_provider, quality_scores, args, futures,
                   pool_keys, cursor, web_results, social_results,
                   websailor_data, all_urls,
                   extracted_content, extraction_result, env, stats_before>>

\* lines 185-191: the with block ends (the pool is shut down, waiting for
\* its tasks), web_sources is set and the mapping is returned
WebReturn(r) ==
    /\ Scheduled(r)
    /\ pc[r] = "web_collect"
    /\ cursor[r] > Len(pool_keys[r])
    /\ PoolDrained(r)
    /\ collection_stats' = [collection_stats EXCEPT
            !.web_sources = web_results[r].total_web_sources]
    /\ Checkpoint(r, progress_callback[r], <<4>>, "social")
    /\ UNCHANGED <<analysis, websailor_calls,
                   massive_json, json_file_path, validation_results,
                   collection_result,
                   sources_by_provider, quality_scores, args, futures,
                   pool_keys, cursor, web_results, social_results,
                   websailor_data, all_urls,
                   extracted_content, extraction_result, env, stats_before>>

(***************************************************************************)
(* _collect_massive_social_data, lines 193-241                             *)
(***************************************************************************)
\* the platforms _search_social_platform_massive has no adapter for
SimulatedPlatforms == {"tiktok", "facebook"}

\* a post or video as a social adapter returns it
SocialItem(u, platform) == [url |-> u, platform |-> platform]

\* the responses of a social adapter: a result dict with its items, a
\* well-formed result without items, or an exception
SocialAdapterOutcomes(platform) ==
    {[kind |-> "ok",
      value |-> [results |-> [i \in DOMAIN l |-> SocialItem(l[i], platform)]]] :
        l \in {x \in SeqsUpTo(Urls, MaxHits) : Len(x) <= env.events}}
    \cup (IF env.events > 0 THEN {[kind |-> "raise", value |-> EmptyDict]} ELSE {})

\* _simulate_platform_data, lines 554-570
SimulatePlatformData(platform) ==
    [results |-> <<SocialItem(IF platform = "tiktok"
                              THEN "https://tiktok.com/example"
                              ELSE "https://facebook.com/example", platform)>>]

\* _search_social_platform_massive, lines 534-552: the value of the task,
\* given what the adapter did
SearchSocialPlatformMassive(platform, out) ==
    IF platform \in SimulatedPlatforms THEN SimulatePlatformData(platform)
    ELSE IF out.kind = "ok" THEN out.value
    ELSE EmptyDict

\* lines 196-215: the result mapping and one task per platform
SocialSubmit(r) ==
    /\ Scheduled(r)
    /\ pc[r] = "social"
    /\ social_results' = [social_results EXCEPT ![r] =
            [data |-> [p \in Range(Platforms) |-> EmptyDict],
             total_social_sources |-> 0]]
    /\ pool_keys' = [pool_keys EXCEPT ![r] = Platforms]
    /\ futures' = [futures EXCEPT ![r] = [k \in Range(Platforms) |-> NewFuture]]
    /\ cursor' = [cursor EXCEPT ![r] = 1]
    /\ pc' = [pc EXCEPT ![r] = "social_collect"]
    /\ stats_before' = [stats_before EXCEPT ![r].phase = StatsValue]
    /\ UNCHANGED <<analysis, websailor_calls, progress_callback,
                   massive_json, json_file_path, validation_results,
                   collection_result, raised,
                   collection_stats, sources_by_provider, quality_scores,
                   args, web_results, websailor_data, all_urls,
                   extracted_content, extraction_result, env>>

\* a worker task of the social pool runs to its end
SocialTaskFinish(r, p) ==
    /\ Scheduled(r)
    /\ pc[r] \in {"social_collect", "websailor"}
    /\ Running(r, p)
    /\ MayEndNow(r, p)
    /\ \E out \in (IF p \in SimulatedPlatforms
                    THEN {[kind |-> "none", value |-> EmptyDict]}
                    ELSE SocialAdapterOutcomes(p)) :
        /\ futures' = [futures EXCEPT ![r][p] =
                [@ EXCEPT !.status = "done",
                          !.result = SearchSocialPlatformMassive(p, out),
                          !.collab = out.kind]]
        /\ env' = IF out.kind = "ok"
                  THEN AfterOutcome(out, Len(out.value.results))
                  ELSE IF out.kind = "raise" THEN AfterOutcome(out, 0)
                  ELSE env
    /\ UNCHANGED <<analysis, websailor_calls, progress_callback,
                   massive_json, json_file_path, validation_results,
                   collection_result, raised,
                   collection_stats, sources_by_provider, quality_scores, pc,
                   args, pool_keys, cursor, web_results, social_results,
                   websailor_data, all_urls,
                   extracted_content, extraction_result, stats_before>>

\* lines 223-230: what a platform result adds to the counters
SocialCount(results) ==
    IF Get(results, "results", <<>>) # <<>> THEN Len(results.results) ELSE 0

\* lines 220-232: the result of the platform at the cursor
SocialCollect(r) ==
    /\ Scheduled(r)
    /\ pc[r] = "social_collect"
    /\ ResultReady(r)
    /\ LET platform == pool_keys[r][cursor[r]]
           results == futures[r][platform].result
           count == SocialCount(results)
       IN
        /\ social_results' = [social_results EXCEPT
                ![r].data[platform] = results,
                ![r].total_social_sources = @ + count]
        /\ collection_stats' =
                IF platform = "youtube"
                THEN [collection_stats EXCEPT !.youtube_sources = @ + count]
                ELSE [collection_stats EXCEPT !.social_sources = @ + count]
    /\ cursor' = [cursor EXCEPT ![r] = @ + 1]
    /\ UNCHANGED <<analysis, websailor_calls, progress_callback,
                   massive_json, json_file_path, validation_results,
                   collection_result, raised,
                   sources_by_provider, quality_scores, pc, args, futures,
                   pool_keys, web_results, websailor_data, all_urls,
                   extracted_content, extraction_result, env, stats_before>>

\* lines 234-236: future.result(timeout=90) raised
SocialTimeout(r) ==
    /\ Scheduled(r)
    /\ pc[r] = "social_collect"
    /\ ResultTimesOut(r)
    /\ LET platform == pool_keys[r][cursor[r]] IN
        /\ social_results' = [social_results EXCEPT ![r].data[platform] = EmptyDict]
        /\ futures' = [futures EXCEPT ![r][platform] = TimedOut(@)]
        /\ env' = AfterTimeout(futures[r][platform])
    /\ cursor' = [cursor EXCEPT ![r] = @ + 1]
    /\ UNCHANGED <<analysis, websailor_calls, progress_callback,
                   massive_json, json_file_path, validation_results,
                   collection_result, raised,
                   collection_stats, sources_by_provider, quality_scores, pc,
                   args, pool_keys, web_results, websailor_data, all_urls,
                   extracted_content, extraction_result, stats_before>>

\* lines 237-241: the with block ends (the pool is shut down, waiting for
\* its tasks) and the mapping is returned
SocialReturn(r) ==
    /\ Scheduled(r)
    /\ pc[r] = "social_collect"
    /\ cursor[r] > Len(pool_keys[r])
    /\ PoolDrained(r)
    /\ Checkpoint(r, progress_callback[r], <<6>>, "websailor")
    /\ UNCHANGED <<analysis, websailor_calls,
                   massive_json, json_file_path, validation_results,
                   collection_result,
                   collection_stats, sources_by_provider, quality_scores,
                   args, futures, pool_keys, cursor, web_results,
                   social_results, websailor_data, all_urls,
                   extracted_content, extraction_result, env, stats_before>>

(***************************************************************************)
(* _collect_websailor_deep_data, lines 243-262                             *)
(***************************************************************************)
\* a source as the deep navigator lists it
Fonte(u) == [url |-> u, title |-> "t"]

\* the responses of navigate_and_research_deep: a result with its detailed
\* sources, a result without a consolidated content, or an exception
WebsailorOutcomes ==
    {[kind |-> "ok",
      value |-> [conteudo_consolidado |->
                    [fontes_detalhadas |-> [i \in DOMAIN l |-> Fonte(l[i])]]]] :
        l \in {x \in SeqsUpTo(Urls, MaxHits) : x # <<>> /\ Len(x) <= env.events}}
    \cup {[kind |-> "ok", value |-> EmptyDict]}
    \cup (IF env.events > 0 THEN {[kind |-> "raise", value |-> EmptyDict]} ELSE {})

\* the detailed sources of a navigator result (lines 300-301)
FontesDetalhadas(data) ==
    Get(Get(data, "conteudo_consolidado", EmptyDict), "fontes_detalhadas", <<>>)

\* "max_pages=50", line 250
MaxPages == 50

\* "depth_levels=3", line 251
DepthLevels == 3

\* the call of navigate_and_research_deep of lines 247-253, and whether it
\* raised
NavigatorCall(out) ==
    [max_pages |-> MaxPages, depth_levels |-> DepthLevels,
     raised |-> out.kind = "raise"]

\* a deep collector that lets the exception of the navigator through, to
\* the handler of collect_massive_data
CollectWebsailorDeepDataRaising(r) ==
    /\ Scheduled(r)
    /\ pc[r] = "websailor"
    /\ \E out \in WebsailorOutcomes :
        /\ websailor_calls' = [websailor_calls EXCEPT
                ![r] = Append(@, NavigatorCall(out))]
        /\ websailor_data' = [websailor_data EXCEPT ![r] =
                IF out.kind = "ok" THEN out.value ELSE EmptyDict]
        /\ env' = IF out.kind = "ok"
                  THEN AfterOutcome(out, Len(FontesDetalhadas(out.value)))
                  ELSE AfterOutcome(out, 0)
        /\ IF out.kind = "ok"
           THEN Checkpoint(r, progress_callback[r], <<8>>, "extract")
           ELSE /\ pc' = [pc EXCEPT ![r] = "except"]
                /\ raised' = [raised EXCEPT ![r] = [text |-> {}]]
                /\ UNCHANGED progress_callback
    /\ futures' = [futures EXCEPT ![r] = EmptyDict]
    /\ pool_keys' = [pool_keys EXCEPT ![r] = <<>>]
    /\ UNCHANGED <<analysis, massive_json, json_file_path, validation_results,
                   collection_result,
                   collection_stats, sources_by_provider, quality_scores,
                   args, cursor, web_results, social_results, all_urls,
                   extracted_content, extraction_result, stats_before>>

\* lines 246-262: the navigator's result, or {} when it raised
CollectWebsailorDeepData(r) ==
    /\ Scheduled(r)
    /\ pc[r] = "websailor"
    /\ \E out \in WebsailorOutcomes :
        /\ websailor_calls' = [websailor_calls EXCEPT
                ![r] = Append(@, NavigatorCall(out))]
        /\ websailor_data' = [websailor_data EXCEPT ![r] =
                IF out.kind = "ok" THEN out.value ELSE EmptyDict]
        /\ env' = IF out.kind = "ok"
                  THEN AfterOutcome(out, Len(FontesDetalhadas(out.value)))
                  ELSE AfterOutcome(out, 0)
    /\ futures' = [futures EXCEPT ![r] = EmptyDict]
    /\ pool_keys' = [pool_keys EXCEPT ![r] = <<>>]
    /\ Checkpoint(r, progress_callback[r], <<8>>, "extract")
    /\ UNCHANGED <<analysis, massive_json, json_file_path, validation_results,
                   collection_result,
                   collection_stats, sources_by_provider, quality_scores,
                   args, cursor, web_results, social_results, all_urls,
                   extracted_content, extraction_result, stats_before>>

(***************************************************************************)
(* _extract_massive_content, lines 264-352, and its worker task            *)
(* _extract_single_content, lines 572-601                                  *)
(***************************************************************************)
\* "all_urls[:100]", line 317
ExtractionCap == 100

\* "len(content) > 200", line 579
MinContentLength == 200

\* A text is known by what the collector measures of it: len(content),
\* len(content.split()), and the matches of the two patterns of lines
\* 627-628.
ShortText == [chars |-> 200, words |-> 30, numbers |-> 0, money |-> 0]
PlainText == [chars |-> 201, words |-> 35, numbers |-> 0, money |-> 0]
RichText == [chars |-> 60000, words |-> 9000, numbers |-> 12, money |-> 6]
ContentSamples == {ShortText, PlainText, RichText}

\* texts around every threshold of the extraction and of the score; a word
\* takes a character and a separator, a number a digit and a separator, a
\* money value "R$" and a digit and a separator
ThresholdTexts ==
    {c \in [chars : {199, 200, 201, 999, 1000, 1999, 2000},
            words : {30, 149, 150, 299, 300},
            numbers : {0, 1, 9, 10, 11, 40},
            money : {0, 4, 5, 6, 30}] :
        /\ 2 * c.words - 1 <= c.chars
        /\ 2 * c.numbers - 1 <= c.chars
        /\ 4 * c.money - 1 <= c.chars}

\* the texts the extractor may return in this behaviour
Texts ==
    IF env.texts = "samples" THEN ContentSamples
    ELSE IF env.texts = "rich" THEN {RichText}
    ELSE ThresholdTexts

\* the extractor returned None or ""
NoText == [chars |-> 0, words |-> 0, numbers |-> 0, money |-> 0]

Min(a, b) == IF a <= b THEN a ELSE b

RECURSIVE Flatten(_)
\* the lists of a list, one after the other
Flatten(ss) == IF ss = <<>> THEN <<>> ELSE Head(ss) \o Flatten(Tail(ss))

\* lines 276-285: the tasks of the hits of one provider
WebUrlTasks(provider_results) ==
    LET kept == SelectSeq(provider_results, LAMBDA result : result.url # "") IN
    [i \in DOMAIN kept |->
        [url |-> kept[i].url, source |-> Get(kept[i], "source", "web")]]

\* lines 288-297: the tasks of the items of one platform
SocialUrlTasks(platform_data) ==
    LET kept == SelectSeq(Get(platform_data, "results", <<>>),
                          LAMBDA result : result.url # "") IN
    [i \in DOMAIN kept |->
        [url |-> kept[i].url, source |-> Get(kept[i], "platform", "social")]]

\* lines 300-307: the tasks of the navigator's sources
WebsailorUrlTasks(data) ==
    LET fontes == FontesDetalhadas(data) IN
    [i \in DOMAIN fontes |-> [url |-> fontes[i].url, source |-> "websailor"]]

\* lines 273-307: all_urls
HarvestUrls(web_data, social_data, deep_data) ==
    Flatten([i \in DOMAIN WebProviders |->
                WebUrlTasks(web_data.results[WebProviders[i]])])
    \o Flatten([i \in DOMAIN Platforms |->
                SocialUrlTasks(social_data.data[Platforms[i]])])
    \o WebsailorUrlTasks(deep_data)

\* a bonus that treats every web provider alike
SourceBonusAnyProvider(url_data) ==
    LET source == Get(url_data, "source", "") IN
    IF source = "exa" THEN 10
    ELSE IF source = "websailor" THEN 8
    ELSE IF source \in {"google", "serper", "bing", "duckduckgo"} THEN 6 ELSE 0

\* lines 633-640: the score of the source
SourceBonus(url_data) ==
    LET source == Get(url_data, "source", "") IN
    IF source = "exa" THEN 10
    ELSE IF source = "websailor" THEN 8
    ELSE IF source \in {"google", "serper"} THEN 6 ELSE 0

\* lines 608-622: the scores of the size and of the density
SizeAndDensity(content) ==
    (IF content.chars >= 2000 THEN 25
     ELSE IF content.chars >= 1000 THEN 15 ELSE 5)
    + (IF content.words >= 300 THEN 25
       ELSE IF content.words >= 150 THEN 15 ELSE 5)

\* a score that adds up what it finds, with no cap on a part or on the sum
CalculateContentQualityUncapped(content, url_data) ==
    SizeAndDensity(content) + content.numbers * 2 + content.money * 3
        + SourceBonus(url_data)

\* _calculate_content_quality, lines 603-642
CalculateContentQuality(content, url_data) ==
    Min(SizeAndDensity(content)
            + Min(content.numbers * 2, 20) + Min(content.money * 3, 15)
            + SourceBonus(url_data),
        100)

\* line 579: the content makes a document
ContentAccepted(content) ==
    content # NoText /\ content.chars > MinContentLength

\* lines 583-595: the document of a task
ContentData(url_data, index, content) ==
    [success |-> TRUE,
     url |-> url_data.url,
     source |-> Get(url_data, "source", "unknown"),
     content |-> content,
     content_length |-> content.chars,
     word_count |-> content.words,
     quality_score |-> CalculateContentQuality(content, url_data),
     extraction_index |-> index]

\* the responses of robust_content_extractor.extract_content: nothing, a
\* text, or an exception
ExtractorOutcomes ==
    {[kind |-> "ok", value |-> NoText]}
    \cup (IF env.events > 0
          THEN {[kind |-> "ok", value |-> c] : c \in Texts} ELSE {})
    \cup (IF env.events > 0 THEN {[kind |-> "raise", value |-> NoText]} ELSE {})

\* the budget after an outcome of the extractor
AfterExtraction(out) ==
    IF out.kind = "raise" THEN [env EXCEPT !.events = @ - 1]
    ELSE IF out.value # NoText THEN [env EXCEPT !.events = @ - 1]
    ELSE env

\* a pool that takes every harvested url
SubmittedCountAll(urls) == Len(urls)

\* "enumerate(all_urls[:100])", line 317: the number of tasks
SubmittedCount(urls) == Min(Len(urls), ExtractionCap)

\* a task that keeps its own score as the list of scores
RecordLastQuality(scores, score) == <<score>>

\* line 581: the task appends its score to collection_stats['quality_scores']
RecordQuality(scores, score) == Append(scores, score)

\* lines 273-320: the urls are harvested and the first 100 are submitted
ExtractSubmit(r) ==
    /\ Scheduled(r)
    /\ pc[r] = "extract"
    /\ LET urls == HarvestUrls(web_results[r], social_results[r], websailor_data[r])
           n == SubmittedCount(urls)
       IN
        /\ all_urls' = [all_urls EXCEPT ![r] = urls]
        /\ pool_keys' = [pool_keys EXCEPT ![r] = [i \in 1..n |-> i - 1]]
        /\ futures' = [futures EXCEPT ![r] = [k \in 0..(n - 1) |-> NewFuture]]
    /\ extracted_content' = [extracted_content EXCEPT ![r] = <<>>]
    /\ cursor' = [cursor EXCEPT ![r] = 1]
    /\ pc' = [pc EXCEPT ![r] = "extract_collect"]
    /\ stats_before' = [stats_before EXCEPT ![r].phase = StatsValue]
    /\ UNCHANGED <<analysis, websailor_calls, progress_callback,
                   massive_json, json_file_path, validation_results,
                   collection_result, raised,
                   collection_stats, sources_by_provider, quality_scores,
                   args, web_results, social_results, websailor_data,
                   extraction_result, env>>

\* _extract_single_content, lines 575-601, run by a worker of the pool: the
\* score of an accepted content is appended to quality_scores by the worker
ExtractSingleContent(r, index) ==
    /\ Scheduled(r)
    /\ pc[r] \in {"extract_collect", "consolidate"}
    /\ Running(r, index)
    /\ \E out \in ExtractorOutcomes :
        LET url_data == all_urls[r][index + 1]
            accepted == out.kind = "ok" /\ ContentAccepted(out.value)
        IN
        /\ accepted \/ MayEndNow(r, index)
        /\ quality_scores' =
                IF accepted
                THEN RecordQuality(quality_scores,
                                   CalculateContentQuality(out.value, url_data))
                ELSE quality_scores
        /\ futures' = [futures EXCEPT ![r][index] =
                [@ EXCEPT !.status = "done",
                          !.result = IF accepted
                                     THEN ContentData(url_data, index, out.value)
                                     ELSE EmptyDict,
                          !.collab = out.kind,
                          !.fetched = IF out.kind = "ok" THEN out.value
                                      ELSE Unset]]
        /\ env' = AfterExtraction(out)
    /\ UNCHANGED <<analysis, websailor_calls, progress_callback,
                   massive_json, json_file_path, validation_results,
                   collection_result, raised,
                   collection_stats, sources_by_provider, pc, args, pool_keys,
                   cursor, web_results, social_results, websailor_data,
                   all_urls, extracted_content, extraction_result,
                   stats_before>>

\* a list that keeps the newest document first (a variant of
\* CollectDocument)
CollectDocumentFirst(contents, content_data) == <<content_data>> \o contents

\* line 326: extracted_content.append(content_data)
CollectDocument(contents, content_data) == Append(contents, content_data)

\* lines 325-331: the result of the task at the cursor
ExtractCollect(r) ==
    /\ Scheduled(r)
    /\ pc[r] = "extract_collect"
    /\ ResultReady(r)
    /\ LET content_data == futures[r][pool_keys[r][cursor[r]]].result IN
        IF Get(content_data, "success", FALSE)
        THEN /\ extracted_content' = [extracted_content EXCEPT
                    ![r] = CollectDocument(@, content_data)]
             /\ collection_stats' = [collection_stats EXCEPT
                    !.total_content_chars = @ + content_data.content.chars]
        ELSE UNCHANGED <<extracted_content, collection_stats>>
    /\ cursor' = [cursor EXCEPT ![r] = @ + 1]
    /\ UNCHANGED <<analysis, websailor_calls, progress_callback,
                   massive_json, json_file_path, validation_results,
                   collection_result, raised,
                   sources_by_provider, quality_scores, pc, args, futures,
                   pool_keys, web_results, social_results, websailor_data,
                   all_urls, extraction_result, env, stats_before>>

\* a handler of the timeout that leaves the loop over the futures
ExtractTimeoutAborting(r) ==
    /\ Scheduled(r)
    /\ pc[r] = "extract_collect"
    /\ ResultTimesOut(r)
    /\ LET i == pool_keys[r][cursor[r]] IN
        /\ futures' = [futures EXCEPT ![r][i] = TimedOut(@)]
        /\ env' = AfterTimeout(futures[r][i])
    /\ cursor' = [cursor EXCEPT ![r] = Len(pool_keys[r]) + 1]
    /\ UNCHANGED <<analysis, websailor_calls, progress_callback,
                   massive_json, json_file_path, validation_results,
                   collection_result, raised,
                   collection_stats, sources_by_provider, quality_scores, pc,
                   args, pool_keys, web_results, social_results,
                   websailor_data, all_urls, extracted_content,
                   extraction_result, stats_before>>

\* lines 333-335: future.result(timeout=60) raised
ExtractTimeout(r) ==
    /\ Scheduled(r)
    /\ pc[r] = "extract_collect"
    /\ ResultTimesOut(r)
    /\ LET i == pool_keys[r][cursor[r]] IN
        /\ futures' = [futures EXCEPT ![r][i] = TimedOut(@)]
        /\ env' = AfterTimeout(futures[r][i])
    /\ cursor' = [cursor EXCEPT ![r] = @ + 1]
    /\ UNCHANGED <<analysis, websailor_calls, progress_callback,
                   massive_json, json_file_path, validation_results,
                   collection_result, raised,
                   collection_stats, sources_by_provider, quality_scores, pc,
                   args, pool_keys, web_results, social_results,
                   websailor_data, all_urls, extracted_content,
                   extraction_result, stats_before>>

\* a ratio a/b, as the pair of its terms (python computes a float)
Ratio(a, b) == [num |-> a, den |-> b]

\* _categorize_sources, lines 644-653
CategorizeSources(contents) ==
    [src \in {contents[i].source : i \in DOMAIN contents} |->
        Cardinality({i \in DOMAIN contents : contents[i].source = src})]

\* a rate that divides by the number of urls whatever it is
ExtractionSuccessRateUnguarded(urls, contents) ==
    Ratio(Len(contents) * 100, Len(urls))

\* line 340: the rate, 0 when no url was found
ExtractionSuccessRate(urls, contents) ==
    IF urls # <<>> THEN Ratio(Len(contents) * 100, Len(urls)) ELSE Ratio(0, 1)

\* lines 337-347: extraction_result
ExtractionResult(urls, contents, total_chars) ==
    [total_urls_found |-> Len(urls),
     total_content_extracted |-> Len(contents),
     extraction_success_rate |-> ExtractionSuccessRate(urls, contents),
     extracted_content |-> contents,
     extraction_stats |->
        [total_chars |-> total_chars,
         avg_content_length |->
            IF contents # <<>> THEN Ratio(total_chars, Len(contents))
            ELSE Ratio(0, 1),
         sources_by_type |-> CategorizeSources(contents)]]

\* lines 336-352: the with block ends (the pool is shut down, waiting for
\* its tasks) and the extraction result is returned
ExtractReturn(r) ==
    /\ Scheduled(r)
    /\ pc[r] = "extract_collect"
    /\ cursor[r] > Len(pool_keys[r])
    /\ PoolDrained(r)
    /\ extraction_result' = [extraction_result EXCEPT ![r] =
            ExtractionResult(all_urls[r], extracted_content[r],
                             collection_stats.total_content_chars)]
    /\ Checkpoint(r, progress_callback[r], <<10>>, "consolidate")
    /\ UNCHANGED <<analysis, websailor_calls,
                   massive_json, json_file_path, validation_results,
                   collection_result,
                   collection_stats, sources_by_provider, quality_scores,
                   args, futures, pool_keys, cursor, web_results,
                   social_results, websailor_data, all_urls,
                   extracted_content, env, stats_before>>

(***************************************************************************)
(* _consolidate_massive_json, lines 354-440                                *)
(***************************************************************************)
\* The snapshot and the returned statistics hold the dict and the list of
\* collection_stats themselves, not copies of them: a reader of the
\* snapshot sees what the object holds when it reads.
SourcesByProviderRef == [ref |-> "sources_by_provider"]
QualityScoresRef == [ref |-> "quality_scores"]

\* the keys of preparacao_para_analises, lines 428-435, as their words after
\* "dados_prontos_para_"
ReadinessKeys ==
    {<<"avatar">>, <<"drivers">>, <<"provas", "visuais">>, <<"anti", "objecao">>,
     <<"pre", "pitch">>, <<"predicoes">>, <<"concorrencia">>, <<"posicionamento">>}

\* a flag that follows what was collected (a variant of DataReady)
DataReadyIfCollected(r, key) ==
    Get(extraction_result[r], "total_content_extracted", 0) > 0

\* lines 428-435: each 'dados_prontos_para_...' entry is the literal True
DataReady(r, key) == TRUE

\* _assess_data_quality_for_analysis, lines 749-764
AssessDataQualityForAnalysis(extracted) ==
    LET content_list == Get(extracted, "extracted_content", <<>>)
        total_chars == SumSeq([i \in DOMAIN content_list |->
                                content_list[i].content.chars])
        total_quality == SumSeq([i \in DOMAIN content_list |->
                                content_list[i].quality_score])
    IN IF Len(content_list) < 10 THEN FALSE
       ELSE IF total_chars < 30000 THEN FALSE
       ELSE total_quality >= 60 * Len(content_list)

\* lines 368-438: massive_json (the automatic insights, display strings
\* derived from the same statistics, are left out)
MassiveJson(r) ==
    [metadata_coleta_massiva |->
        [session_id |-> args[r].session_id, query_original |-> args[r].query],
     estatisticas_coleta |->
        [total_fontes_web |-> collection_stats.web_sources,
         total_fontes_sociais |-> collection_stats.social_sources,
         total_fontes_youtube |-> collection_stats.youtube_sources,
         total_caracteres_extraidos |-> collection_stats.total_content_chars,
         tempo_coleta_segundos |-> collection_stats.extraction_time,
         fontes_por_provedor |-> SourcesByProviderRef,
         taxa_sucesso_extracao |->
            Get(extraction_result[r], "extraction_success_rate", Ratio(0, 1)),
         qualidade_media_conteudo |->
            IF quality_scores # <<>>
            THEN Ratio(SumSeq(quality_scores), Len(quality_scores))
            ELSE Ratio(0, 1)],
     dados_web_completos |-> web_results[r],
     dados_sociais_completos |-> social_results[r],
     dados_websailor_profundos |-> websailor_data[r],
     conteudo_extraido_massivo |->
        [total_paginas_extraidas |->
            Get(extraction_result[r], "total_content_extracted", 0),
         conteudo_completo |-> Get(extraction_result[r], "extracted_content", <<>>),
         estatisticas_extracao |->
            Get(extraction_result[r], "extraction_stats", EmptyDict),
         taxa_sucesso |->
            Get(extraction_result[r], "extraction_success_rate", Ratio(0, 1))],
     preparacao_para_analises |->
        [dados_prontos_para |-> [k \in ReadinessKeys |-> DataReady(r, k)],
         qualidade_suficiente_para_analises |->
            AssessDataQualityForAnalysis(extraction_result[r])]]

ConsolidateMassiveJson(r) ==
    /\ Scheduled(r)
    /\ pc[r] = "consolidate"
    /\ massive_json' = [massive_json EXCEPT ![r] = MassiveJson(r)]
    /\ futures' = [futures EXCEPT ![r] = EmptyDict]
    /\ pool_keys' = [pool_keys EXCEPT ![r] = <<>>]
    /\ cursor' = [cursor EXCEPT ![r] = 1]
    /\ Checkpoint(r, progress_callback[r], <<11>>, "save")
    /\ UNCHANGED <<analysis, websailor_calls,
                   collection_stats, sources_by_provider, quality_scores, args,
                   web_results, social_results, websailor_data, all_urls,
                   extracted_content, extraction_result, json_file_path,
                   validation_results, collection_result, env,
                   stats_before>>

(***************************************************************************)
(* _save_massive_json, lines 442-466                                       *)
(***************************************************************************)
\* line 452: the file name holds session_id[:8]
FilePath(session_id) == <<"massive_data", <<"first8", session_id>>>>

\* What the file system may do: the file is written, open() raises (the
\* OSError names the path), or makedirs/write raises (it names no file).
\* An exception is known by what its text holds.
SaveOutcomes(r) ==
    {[kind |-> "ok", exception |-> [text |-> {}]]}
    \cup (IF env.events > 0
          THEN {[kind |-> "raise",
                 exception |-> [text |-> {FilePath(args[r].session_id)}]],
                [kind |-> "raise", exception |-> [text |-> {}]]}
          ELSE {})

\* lines 445-466, and lines 136-139 of collect_massive_data: the path is
\* returned, or the exception is raised again as it is and reaches the
\* handler of collect_massive_data
SaveMassiveJson(r) ==
    /\ Scheduled(r)
    /\ pc[r] = "save"
    /\ \E out \in SaveOutcomes(r) :
        IF out.kind = "ok"
        THEN /\ json_file_path' = [json_file_path EXCEPT
                    ![r] = FilePath(args[r].session_id)]
             /\ Checkpoint(r, progress_callback[r], <<12>>, "validate")
             /\ UNCHANGED env
        ELSE /\ raised' = [raised EXCEPT ![r] = out.exception]
             /\ pc' = [pc EXCEPT ![r] = "except"]
             /\ env' = [env EXCEPT !.events = @ - 1]
             /\ UNCHANGED <<json_file_path, progress_callback>>
    /\ UNCHANGED <<analysis, websailor_calls,
                   collection_stats, sources_by_provider, quality_scores, args,
                   futures, pool_keys, cursor, web_results, social_results,
                   websailor_data, all_urls, extracted_content,
                   extraction_result, massive_json, validation_results,
                   collection_result, stats_before>>

\* a handler that swallows the exception and goes on to return a result
ReturnPartial(r) ==
    /\ Scheduled(r)
    /\ pc[r] = "except"
    /\ pc' = [pc EXCEPT ![r] = "finish"]
    /\ UNCHANGED <<analysis, websailor_calls, progress_callback,
                   collection_stats, sources_by_provider, quality_scores, args,
                   futures, pool_keys, cursor, web_results, social_results,
                   websailor_data, all_urls, extracted_content,
                   extraction_result, massive_json, json_file_path,
                   validation_results, collection_result, raised, env,
                   stats_before>>

\* collect_massive_data, lines 136-139: the error is logged and "raise e"
\* hands the caller the exception that was caught
Reraise(r) ==
    /\ Scheduled(r)
    /\ pc[r] = "except"
    /\ pc' = [pc EXCEPT ![r] = "raised"]
    /\ UNCHANGED <<analysis, websailor_calls, progress_callback,
                   collection_stats, sources_by_provider, quality_scores, args,
                   futures, pool_keys, cursor, web_results, social_results,
                   websailor_data, all_urls, extracted_content,
                   extraction_result, massive_json, json_file_path,
                   validation_results, collection_result, raised, env,
                   stats_before>>

(***************************************************************************)
(* _validate_massive_data, lines 692-747                                   *)
(***************************************************************************)
\* line 706
MinTotalChars == 50000

\* line 714
MinAvgQuality == 60

\* line 744
MinModules == 6

\* modulos_possiveis, lines 722-731, as the words "_" separates
ModulosPossiveis ==
    << <<"avatar", "ultra", "detalhado">>,
       <<"drivers", "mentais", "customizados">>,
       <<"provas", "visuais", "arsenal">>,
       <<"sistema", "anti", "objecao">>,
       <<"pre", "pitch", "invisivel">>,
       <<"predicoes", "futuro">>,
       <<"analise", "concorrencia">>,
       <<"posicionamento", "estrategico">> >>

\* line 734: the flag of key "dados_prontos_para_" + modulo.split("_")[0]
ModuloPronto(preparacao, modulo) ==
    Get(Get(preparacao, "dados_prontos_para", EmptyDict), <<Head(modulo)>>, FALSE)

\* None, where the code expects a dict
PyNone == [py_none |-> TRUE]

\* a threshold test that passes at the minimum only when it is exceeded
SufficientVolumeStrict(total_content) == total_content > MinTotalChars

\* line 706
SufficientVolume(total_content) == total_content >= MinTotalChars

\* a threshold test that passes at the minimum only when it is exceeded
QualityApprovedStrict(avg_quality) ==
    avg_quality.num > MinAvgQuality * avg_quality.den

\* line 714, on the average as a ratio
QualityApproved(avg_quality) ==
    avg_quality.num >= MinAvgQuality * avg_quality.den

\* lines 704, 712, 720, 734: the validator calls .get on massive_json, on
\* its 'estatisticas_coleta' and on its 'preparacao_para_analises'; on None
\* that raises AttributeError, and the validator catches nothing
ValidatorRaises(json) ==
    \/ json = PyNone
    \/ Get(json, "estatisticas_coleta", EmptyDict) = PyNone
    \/ Get(json, "preparacao_para_analises", EmptyDict) = PyNone

\* lines 694-747: the report, when nothing raises
\* a validator that asks for more sources up to and including MinModules
\* feasible modules (a variant of Recomendacoes)
RecomendacoesUpToMinimum(enough, approved, modulos) ==
    (IF enough THEN <<>>
     ELSE <<"Execute nova coleta com mais APIs configuradas">>)
    \o (IF approved THEN <<>>
        ELSE <<"Configure APIs premium para melhor qualidade">>)
    \o (IF Len(modulos) <= MinModules
        THEN <<"Dados insuficientes para alguns modulos - configure mais fontes">>
        ELSE <<>>)

\* lines 736-745: validation['recomendacoes']
Recomendacoes(enough, approved, modulos) ==
    (IF enough THEN <<>>
     ELSE <<"Execute nova coleta com mais APIs configuradas">>)
    \o (IF approved THEN <<>>
        ELSE <<"Configure APIs premium para melhor qualidade">>)
    \o (IF Len(modulos) < MinModules
        THEN <<"Dados insuficientes para alguns modulos - configure mais fontes">>
        ELSE <<>>)

ValidateMassiveData(json) ==
    LET stats == Get(json, "estatisticas_coleta", EmptyDict)
        total_content == Get(stats, "total_caracteres_extraidos", 0)
        avg_quality == Get(stats, "qualidade_media_conteudo", Ratio(0, 1))
        enough == SufficientVolume(total_content)
        approved == QualityApproved(avg_quality)
        preparacao == Get(json, "preparacao_para_analises", EmptyDict)
        modulos == SelectSeq(ModulosPossiveis,
                             LAMBDA modulo : ModuloPronto(preparacao, modulo))
    IN
    [dados_suficientes_para_analise |-> enough,
     qualidade_aprovada |-> approved,
     modulos_viabilizados |-> modulos,
     problemas_identificados |->
        (IF enough THEN <<>>
         ELSE << [problema |-> "Volume insuficiente", valor |-> total_content,
                  minimo |-> MinTotalChars] >>)
        \o (IF approved THEN <<>>
            ELSE << [problema |-> "Qualidade baixa", valor |-> avg_quality,
                     minimo |-> MinAvgQuality] >>),
     recomendacoes |-> Recomendacoes(enough, approved, modulos)]

\* a validator that writes its report into the snapshot it was given
ValidateInPlace(r) ==
    /\ Scheduled(r)
    /\ pc[r] = "validate"
    /\ ~ValidatorRaises(massive_json[r])
    /\ validation_results' = [validation_results EXCEPT
            ![r] = ValidateMassiveData(massive_json[r])]
    /\ massive_json' = [massive_json EXCEPT
            ![r] = ("validacao" :> ValidateMassiveData(@)) @@ @]
    /\ pc' = [pc EXCEPT ![r] = "finish"]
    /\ UNCHANGED <<analysis, websailor_calls, progress_callback,
                   collection_stats, sources_by_provider, quality_scores, args,
                   futures, pool_keys, cursor, web_results, social_results,
                   websailor_data, all_urls, extracted_content,
                   extraction_result, json_file_path, collection_result,
                   raised, env, stats_before>>

\* collect_massive_data, lines 103-107
Validate(r) ==
    /\ Scheduled(r)
    /\ pc[r] = "validate"
    /\ IF ValidatorRaises(massive_json[r])
       THEN /\ raised' = [raised EXCEPT ![r] = [text |-> {}]]
            /\ pc' = [pc EXCEPT ![r] = "except"]
            /\ UNCHANGED validation_results
       ELSE /\ validation_results' = [validation_results EXCEPT
                    ![r] = ValidateMassiveData(massive_json[r])]
            /\ pc' = [pc EXCEPT ![r] = "finish"]
            /\ UNCHANGED raised
    /\ UNCHANGED <<analysis, websailor_calls, progress_callback,
                   collection_stats, sources_by_provider, quality_scores, args,
                   futures, pool_keys, cursor, web_results, social_results,
                   websailor_data, all_urls, extracted_content,
                   extraction_result, massive_json, json_file_path,
                   collection_result, env, stats_before>>

\* a result whose success flag is the verdict of the validator
CollectionResultByVerdict(r) ==
    [success |-> /\ validation_results[r].dados_suficientes_para_analise
                 /\ validation_results[r].qualidade_aprovada,
     session_id |-> args[r].session_id,
     query |-> args[r].query,
     massive_json_path |-> json_file_path[r],
     massive_data |-> massive_json[r],
     collection_stats |->
        [web_sources |-> collection_stats.web_sources,
         social_sources |-> collection_stats.social_sources,
         youtube_sources |-> collection_stats.youtube_sources,
         total_content_chars |-> collection_stats.total_content_chars,
         extraction_time |-> collection_stats.extraction_time,
         sources_by_provider |-> SourcesByProviderRef,
         quality_scores |-> QualityScoresRef],
     validation_results |-> validation_results[r]]

\* collect_massive_data, lines 109-134: the result.  {**self.collection_stats}
\* copies the entries: the dict and the list are shared with the collector
CollectionResult(r) ==
    [success |-> TRUE,
     session_id |-> args[r].session_id,
     query |-> args[r].query,
     massive_json_path |-> json_file_path[r],
     massive_data |-> massive_json[r],
     collection_stats |->
        [web_sources |-> collection_stats.web_sources,
         social_sources |-> collection_stats.social_sources,
         youtube_sources |-> collection_stats.youtube_sources,
         total_content_chars |-> collection_stats.total_content_chars,
         extraction_time |-> collection_stats.extraction_time,
         sources_by_provider |-> SourcesByProviderRef,
         quality_scores |-> QualityScoresRef],
     validation_results |-> validation_results[r]]

Return(r) ==
    /\ Scheduled(r)
    /\ pc[r] = "finish"
    /\ collection_result' = [collection_result EXCEPT ![r] = CollectionResult(r)]
    /\ pc' = [pc EXCEPT ![r] = "returned"]
    /\ UNCHANGED <<analysis, websailor_calls, progress_callback,
                   collection_stats, sources_by_provider, quality_scores, args,
                   futures, pool_keys, cursor, web_results, social_results,
                   websailor_data, all_urls, extracted_content,
                   extraction_result, massive_json, json_file_path,
                   validation_results, raised, env, stats_before>>

\* a collaborator call that never returns
TaskHangs(r, k) ==
    /\ Scheduled(r)
    /\ Running(r, k)
    /\ futures[r][k].collab = "pending"
    /\ env.events > 0
    /\ MayEndNow(r, k)
    /\ pc[r] = "web_collect" => k # "duckduckgo"
    /\ pc[r] = "social_collect" => k \notin SimulatedPlatforms
    /\ futures' = [futures EXCEPT ![r][k].status = "hung"]
    /\ env' = [env EXCEPT !.events = @ - 1]
    /\ UNCHANGED <<analysis, websailor_calls, progress_callback,
                   massive_json, json_file_path, validation_results,
                   collection_result, raised,
                   collection_stats, sources_by_provider, quality_scores, pc,
                   args, pool_keys, cursor, web_results, social_results,
                   websailor_data, all_urls,
                   extracted_content, extraction_result, stats_before>>

Next ==
    \E r \in Runs :
        \/ Invoke(r)
        \/ WebSubmit(r)
        \/ \E p \in Range(WebProviders) : WebTaskFinish(r, p)
        \/ WebCollect(r)
        \/ WebTimeout(r)
        \/ WebReturn(r)
        \/ SocialSubmit(r)
        \/ \E p \in Range(Platforms) : SocialTaskFinish(r, p)
        \/ SocialCollect(r)
        \/ SocialTimeout(r)
        \/ SocialReturn(r)
        \/ CollectWebsailorDeepData(r)
        \/ ExtractSubmit(r)
        \/ \E i \in DOMAIN futures[r] : ExtractSingleContent(r, i)
        \/ ExtractCollect(r)
        \/ ExtractTimeout(r)
        \/ ExtractReturn(r)
        \/ ConsolidateMassiveJson(r)
        \/ SaveMassiveJson(r)
        \/ Reraise(r)
        \/ Validate(r)
        \/ Return(r)
        \/ \E k \in DOMAIN futures[r] : TaskHangs(r, k)

Spec == Init /\ [][Next]_vars

\* two invocations on the one collector (line 767) that may interleave, as
\* callers on two threads make them
InitConc == InitWith(MaxRuns, "cursor", MaxEventsConc, {NoCallback})

SpecConc == InitConc /\ [][Next]_vars

\* the events of the environment when the tasks of a pool end in any order
MaxEventsAnyOrder == 2

\* the invocations follow one another, the exa client is not configured,
\* and the worker tasks of a pool end in every order the threads allow
InitAnyOrder ==
    /\ InitWith(1, "any", MaxEventsAnyOrder, {NoCallback})
    /\ ~ env.exa_available

SpecAnyOrder == InitAnyOrder /\ [][Next]_vars

\* the events of the environment when the callers pass a progress callback
MaxEventsCallback == 1

\* the invocations follow one another; each caller passes no callback, or
\* one of ProgressCallbacks
InitCallback ==
    InitWith(1, "cursor", MaxEventsCallback, {NoCallback} \cup ProgressCallbacks)

SpecCallback == InitCallback /\ [][Next]_vars

(***************************************************************************)
(* _validate_massive_data on the snapshots a caller may hand it            *)
(***************************************************************************)
\* totals of extracted characters around the minimum
Totals == {0, MinTotalChars - 1, MinTotalChars, MinTotalChars + 1}

\* average quality scores around the minimum
Averages ==
    {Ratio(0, 1), Ratio(MinAvgQuality - 1, 1),
     Ratio(2 * MinAvgQuality - 1, 2), Ratio(MinAvgQuality, 1),
     Ratio(2 * MinAvgQuality, 2), Ratio(2 * MinAvgQuality + 1, 2)}

\* the function f on the keys in S
Restrict(f, S) == [k \in S |-> f[k]]

\* 'estatisticas_coleta': None, or a dict with some of the two entries the
\* validator reads
StatsSections ==
    {PyNone}
    \cup {Restrict([total_caracteres_extraidos |-> t,
                    qualidade_media_conteudo |-> q], keys) :
            t \in Totals, q \in Averages,
            keys \in SUBSET {"total_caracteres_extraidos",
                             "qualidade_media_conteudo"}}

\* the keys that line 734 reads for the first n modules of the list:
\* "dados_prontos_para_" + modulo.split("_")[0]
FirstWordKeys(n) == {<<Head(ModulosPossiveis[i])>> : i \in 1..n}

\* 'preparacao_para_analises': None, an empty dict, or readiness flags
ReadinessSections ==
    {PyNone, EmptyDict}
    \cup {[dados_prontos_para |-> [k \in ReadinessKeys |-> flag]] :
            flag \in BOOLEAN}
    \cup {[dados_prontos_para |-> [k \in {<<"avatar">>, <<"predicoes">>} |-> TRUE]]}
    \cup {[dados_prontos_para |-> [k \in FirstWordKeys(n) |-> TRUE]] :
            n \in {MinModules - 1, MinModules, Len(ModulosPossiveis)}}

\* the snapshots: None, or a dict with some of the two sections
ValidatorInputs ==
    {PyNone}
    \cup {Restrict([estatisticas_coleta |-> stats,
                    preparacao_para_analises |-> preparacao], keys) :
            stats \in StatsSections, preparacao \in ReadinessSections,
            keys \in SUBSET {"estatisticas_coleta", "preparacao_para_analises"}}

\* collect_massive_data is about to validate a snapshot
InitValidator ==
    /\ collection_stats = NewCollectionStats
    /\ sources_by_provider = EmptyDict
    /\ quality_scores = <<>>
    /\ pc = [r \in Runs |-> IF r = 1 THEN "validate" ELSE "idle"]
    /\ args = [r \in Runs |-> IF r = 1 THEN ArgsOf(r) ELSE Unset]
    /\ futures = [r \in Runs |-> EmptyDict]
    /\ pool_keys = [r \in Runs |-> <<>>]
    /\ cursor = [r \in Runs |-> 1]
    /\ web_results = [r \in Runs |-> Unset]
    /\ social_results = [r \in Runs |-> Unset]
    /\ websailor_data = [r \in Runs |-> Unset]
    /\ all_urls = [r \in Runs |-> <<>>]
    /\ extracted_content = [r \in Runs |-> <<>>]
    /\ extraction_result = [r \in Runs |-> Unset]
    /\ \E json \in ValidatorInputs :
        massive_json = [r \in Runs |-> IF r = 1 THEN json ELSE Unset]
    /\ json_file_path =
        [r \in Runs |-> IF r = 1 THEN FilePath(ArgsOf(r).session_id) ELSE Unset]
    /\ validation_results = [r \in Runs |-> Unset]
    /\ collection_result = [r \in Runs |-> Unset]
    /\ raised = [r \in Runs |-> Unset]
    /\ env = [events |-> 0, exa_available |-> FALSE, parallel |-> 1,
              order |-> "cursor", texts |-> "samples",
              callbacks |-> {NoCallback}]
    /\ stats_before = [r \in Runs |-> Unset]
    /\ progress_callback = [r \in Runs |-> NoCallback]
    /\ analysis = NoAnalysis
    /\ websailor_calls = [r \in Runs |-> <<>>]

NextValidator ==
    \E r \in Runs :
        \/ Validate(r)
        \/ Reraise(r)
        \/ Return(r)

SpecValidator == InitValidator /\ [][NextValidator]_vars

(***************************************************************************)
(* _extract_massive_content on one url, over the texts of ThresholdTexts   *)
(***************************************************************************)
\* the source tags of the urls the harvest submits (lines 280, 293, 304)
SourceTags == {"exa", "websailor", "google", "serper", "bing", "tiktok"}

\* one url of some source was submitted to the pool, on a collector that
\* has, or has not, scored a document before
InitExtraction ==
    /\ collection_stats = NewCollectionStats
    /\ sources_by_provider = EmptyDict
    /\ quality_scores \in {<<>>, <<95>>}
    /\ pc = [r \in Runs |-> IF r = 1 THEN "extract_collect" ELSE "idle"]
    /\ args = [r \in Runs |-> IF r = 1 THEN ArgsOf(r) ELSE Unset]
    /\ futures = [r \in Runs |-> IF r = 1 THEN (0 :> NewFuture) ELSE EmptyDict]
    /\ pool_keys = [r \in Runs |-> IF r = 1 THEN <<0>> ELSE <<>>]
    /\ cursor = [r \in Runs |-> 1]
    /\ web_results = [r \in Runs |-> Unset]
    /\ social_results = [r \in Runs |-> Unset]
    /\ websailor_data = [r \in Runs |-> Unset]
    /\ \E tag \in SourceTags :
        all_urls = [r \in Runs |->
            IF r = 1 THEN <<[url |-> "u1", source |-> tag]>> ELSE <<>>]
    /\ extracted_content = [r \in Runs |-> <<>>]
    /\ extraction_result = [r \in Runs |-> Unset]
    /\ massive_json = [r \in Runs |-> Unset]
    /\ json_file_path = [r \in Runs |-> Unset]
    /\ validation_results = [r \in Runs |-> Unset]
    /\ collection_result = [r \in Runs |-> Unset]
    /\ raised = [r \in Runs |-> Unset]
    /\ env = [events |-> 1, exa_available |-> FALSE, parallel |-> 1,
              order |-> "cursor", texts |-> "thresholds",
              callbacks |-> {NoCallback}]
    /\ stats_before = [r \in Runs |->
            IF r = 1 THEN [invoke |-> StatsValue, phase |-> StatsValue]
            ELSE Unset]
    /\ progress_callback = [r \in Runs |-> NoCallback]
    /\ analysis = NoAnalysis
    /\ websailor_calls = [r \in Runs |-> <<>>]

NextExtraction ==
    \E r \in Runs :
        \/ \E i \in DOMAIN futures[r] : ExtractSingleContent(r, i)
        \/ ExtractCollect(r)
        \/ ExtractReturn(r)

SpecExtraction == InitExtraction /\ [][NextExtraction]_vars

(***************************************************************************)
(* _extract_massive_content on collections of about 100 urls               *)
(***************************************************************************)
\* the hits asked of a web provider: "num_results=30", line 475, and the 30
\* of lines 504, 512, 520
ProviderPage == 30

\* n hits of provider p
HitsOf(p, n) == [i \in 1..n |-> Hit("u1", p)]

\* The three collectors have returned to run 1: exa, google and serper a
\* full page each, bing 7 hits or a full page, the social platforms their
\* two made-up items, the navigator no source or one; so 99, 100, 122 or
\* 123 urls are harvested
InitCap ==
    /\ \E n \in {7, ProviderPage} :
        /\ web_results = [r \in Runs |->
                IF r = 1
                THEN [results |->
                        [p \in Range(WebProviders) |->
                            IF p \in {"exa", "google", "serper"}
                            THEN HitsOf(p, ProviderPage)
                            ELSE IF p = "bing" THEN HitsOf(p, n) ELSE <<>>],
                      total_web_sources |-> 3 * ProviderPage + n]
                ELSE Unset]
        /\ collection_stats =
                [NewCollectionStats EXCEPT !.web_sources = 3 * ProviderPage + n,
                                           !.social_sources = 2]
        /\ sources_by_provider =
                [p \in Range(WebProviders) |->
                    IF p \in {"exa", "google", "serper"} THEN ProviderPage
                    ELSE IF p = "bing" THEN n ELSE 0]
    /\ social_results = [r \in Runs |->
            IF r = 1
            THEN [data |-> [p \in Range(Platforms) |->
                                IF p \in SimulatedPlatforms
                                THEN SimulatePlatformData(p)
                                ELSE [results |-> <<>>]],
                  total_social_sources |-> 2]
            ELSE Unset]
    /\ \E deep \in {EmptyDict,
                    [conteudo_consolidado |->
                        [fontes_detalhadas |-> <<Fonte("u1")>>]]} :
        websailor_data = [r \in Runs |-> IF r = 1 THEN deep ELSE Unset]
    /\ quality_scores = <<>>
    /\ pc = [r \in Runs |-> IF r = 1 THEN "extract" ELSE "idle"]
    /\ args = [r \in Runs |-> IF r = 1 THEN ArgsOf(r) ELSE Unset]
    /\ futures = [r \in Runs |-> EmptyDict]
    /\ pool_keys = [r \in Runs |-> <<>>]
    /\ cursor = [r \in Runs |-> 1]
    /\ all_urls = [r \in Runs |-> <<>>]
    /\ extracted_content = [r \in Runs |-> <<>>]
    /\ extraction_result = [r \in Runs |-> Unset]
    /\ massive_json = [r \in Runs |-> Unset]
    /\ json_file_path = [r \in Runs |-> Unset]
    /\ validation_results = [r \in Runs |-> Unset]
    /\ collection_result = [r \in Runs |-> Unset]
    /\ raised = [r \in Runs |-> Unset]
    /\ env = [events |-> 1, exa_available |-> TRUE, parallel |-> 1,
              order |-> "cursor", texts |-> "rich",
              callbacks |-> {NoCallback}]
    /\ stats_before = [r \in Runs |->
            IF r = 1 THEN [invoke |-> [StatsValue EXCEPT
                                        !.web_sources = 0,
                                        !.social_sources = 0,
                                        !.sources_by_provider = EmptyDict],
                           phase |-> StatsValue]
            ELSE Unset]
    /\ progress_callback = [r \in Runs |-> NoCallback]
    /\ analysis = NoAnalysis
    /\ websailor_calls = [r \in Runs |->
            IF r = 1
            THEN <<[max_pages |-> MaxPages, depth_levels |-> DepthLevels,
                    raised |-> FALSE]>>
            ELSE <<>>]

NextCap ==
    \E r \in Runs :
        \/ ExtractSubmit(r)
        \/ \E i \in DOMAIN futures[r] : ExtractSingleContent(r, i)
        \/ ExtractCollect(r)
        \/ ExtractReturn(r)

SpecCap == InitCap /\ [][NextCap]_vars

(***************************************************************************)
(* Properties                                                              *)
(***************************************************************************)
\* the task of future f failed: its collaborator raised, or the orchestrator
\* gave up on it
Failed(f) == f.timed_out \/ f.collab = "raise"

\* the exception a run raises comes from the save step: the phases before
\* it have all returned
RaisesOnlyAtSave(r) ==
    pc[r] \in {"except", "raised"} => massive_json[r] # Unset

\* _collect_massive_web_data has returned web_results[r]
WebReturned(r) == pc[r] = "social"

\* C1: whatever the web provider tasks did (returned a list, raised, outlasted
\* the timeout), _collect_massive_web_data raises nothing, the entry of a
\* failed provider is [] with a recorded count of 0, and the entry of every
\* other provider is the list its task produced, with its length recorded.
C1_WebFailureIsolation ==
    \A r \in Runs :
        /\ RaisesOnlyAtSave(r)
        /\ WebReturned(r) =>
            /\ \A p \in DOMAIN futures[r] :
                LET f == futures[r][p] IN
                IF Failed(f)
                THEN /\ web_results[r].results[p] = <<>>
                     /\ Get(sources_by_provider, p, -1) = 0
                ELSE /\ web_results[r].results[p] = f.result
                     /\ Get(sources_by_provider, p, -1) = Len(f.result)
            /\ \A p \in Range(WebProviders) \ DOMAIN futures[r] :
                web_results[r].results[p] = <<>>
            /\ web_results[r].total_web_sources =
                SumOver([p \in DOMAIN futures[r] |->
                            IF Failed(futures[r][p]) THEN 0
                            ELSE Len(futures[r][p].result)],
                        DOMAIN futures[r])

\* a web phase has returned in which one provider failed and another one
\* returned hits
C1_Witness ==
    \E r \in Runs :
        /\ WebReturned(r)
        /\ \E p \in DOMAIN futures[r] : Failed(futures[r][p])
        /\ \E p \in DOMAIN futures[r] : web_results[r].results[p] # <<>>

\* _collect_massive_social_data has returned social_results[r]
SocialReturned(r) == pc[r] = "websailor"

\* what the task of future f adds to the social counters
Contribution(f) ==
    IF Failed(f) THEN 0 ELSE Len(Get(f.result, "results", <<>>))

\* the platforms for which the code has no API to call (lines 546-548)
NotConfigured == SimulatedPlatforms

\* C2: whatever the six platform tasks did (a result with items, a result
\* without, an exception, a timeout), _collect_massive_social_data raises
\* nothing; a platform that failed, returned no item or is not configured
\* adds 0 to total_social_sources and to the youtube/social counters, and
\* the other platforms add what they returned.
C2_SocialFailureIsolation ==
    \A r \in Runs :
        /\ RaisesOnlyAtSave(r)
        /\ SocialReturned(r) =>
            LET zero == {p \in DOMAIN futures[r] :
                            Failed(futures[r][p]) \/ p \in NotConfigured}
                adds == [p \in DOMAIN futures[r] |->
                            IF p \in zero THEN 0
                            ELSE Contribution(futures[r][p])]
            IN
            /\ DOMAIN futures[r] = Range(Platforms)
            /\ \A p \in DOMAIN futures[r] :
                social_results[r].data[p] =
                    IF Failed(futures[r][p]) THEN EmptyDict
                    ELSE futures[r][p].result
            /\ social_results[r].total_social_sources =
                SumOver(adds, DOMAIN futures[r])
            /\ collection_stats.youtube_sources =
                stats_before[r].phase.youtube_sources + adds["youtube"]
            /\ collection_stats.social_sources =
                stats_before[r].phase.social_sources
                    + SumOver(adds, DOMAIN futures[r] \ {"youtube"})

\* a step of the fan-out of run r: of the orchestrator or of one of its tasks
FanOutStep(r) ==
    \/ WebCollect(r) \/ WebTimeout(r) \/ WebReturn(r)
    \/ SocialCollect(r) \/ SocialTimeout(r) \/ SocialReturn(r)
    \/ \E k \in DOMAIN futures[r] : WebTaskFinish(r, k) \/ SocialTaskFinish(r, k)

\* C3: the web and the social orchestrator return whatever the provider
\* tasks do, a task that never completes included: after the timeout on it
\* the orchestrator goes on and returns without waiting for it.  As a
\* property of states: an orchestrator that has not returned can take a
\* step, or one of its tasks can.
C3_FanOutTermination ==
    \A r \in Runs :
        pc[r] \in {"web_collect", "social_collect"} => ENABLED FanOutStep(r)

\* the sum of the lengths of the documents in contents
CharsOf(contents) ==
    SumSeq([i \in DOMAIN contents |-> contents[i].content.chars])

\* C4: every run starts from an all-zero, empty CollectionStats, and the
\* statistics of the snapshot it builds count what that run collected only.
C4_NoCrossRunState ==
    \A r \in Runs :
        /\ pc[r] = "web" =>
            /\ collection_stats = NewCollectionStats
            /\ sources_by_provider = EmptyDict
            /\ quality_scores = <<>>
        /\ massive_json[r] # Unset =>
            LET stats == massive_json[r].estatisticas_coleta IN
            /\ stats.total_fontes_sociais + stats.total_fontes_youtube =
                social_results[r].total_social_sources
            /\ stats.total_caracteres_extraidos = CharsOf(extracted_content[r])

\* the statistics of the collector were all zero and empty when run r was
\* invoked
StartedFromZero(r) ==
    stats_before[r].invoke =
        [web_sources |-> 0, social_sources |-> 0, youtube_sources |-> 0,
         total_content_chars |-> 0, extraction_time |-> 0,
         sources_by_provider |-> EmptyDict, quality_scores |-> <<>>]

\* C5: when two runs interleave, the statistics of the snapshot of a run
\* hold no count, character total or quality score of the other run: for a
\* run that started from zero they are what that run collected.
C5_ConcurrentRunsIsolated ==
    \A r \in Runs :
        (massive_json[r] # Unset /\ StartedFromZero(r)) =>
            LET stats == massive_json[r].estatisticas_coleta IN
            /\ stats.total_fontes_web = web_results[r].total_web_sources
            /\ stats.total_fontes_sociais + stats.total_fontes_youtube =
                social_results[r].total_social_sources
            /\ stats.total_caracteres_extraidos = CharsOf(extracted_content[r])
            /\ stats.qualidade_media_conteudo.den \in
                {1, Len(extracted_content[r])}

\* C6: at the end of every run the counts are non-negative, web_sources is
\* the sum of the values of sources_by_provider, and youtube_sources +
\* social_sources is total_social_sources of that run.
C6_AdditiveInvariant ==
    \A r \in Runs :
        pc[r] = "finish" =>
            /\ collection_stats.web_sources >= 0
            /\ collection_stats.social_sources >= 0
            /\ collection_stats.youtube_sources >= 0
            /\ collection_stats.total_content_chars >= 0
            /\ collection_stats.web_sources =
                SumOver(sources_by_provider, DOMAIN sources_by_provider)
            /\ collection_stats.youtube_sources + collection_stats.social_sources =
                social_results[r].total_social_sources

\* C7: when saving the snapshot raises, collect_massive_data raises: it
\* returns no result and the validator is not run; a run reaches the
\* validator only with a saved snapshot.
C7_PersistenceFailureIsFatal ==
    \A r \in Runs :
        /\ raised[r] # Unset =>
            /\ pc[r] \in {"except", "raised"}
            /\ validation_results[r] = Unset
            /\ collection_result[r] = Unset
            /\ json_file_path[r] = Unset
        /\ pc[r] \in {"validate", "finish", "returned"} =>
            /\ json_file_path[r] # Unset
            /\ raised[r] = Unset

\* the save of a run has raised and collect_massive_data has raised
C7_Witness ==
    \E r \in Runs : pc[r] = "raised" /\ raised[r] # Unset

\* C8: the error collect_massive_data raises carries the session_id and the
\* query of the invocation.
C8_FatalErrorCarriesRun ==
    \A r \in Runs :
        pc[r] = "raised" =>
            /\ args[r].session_id \in raised[r].text
            /\ args[r].query \in raised[r].text

\* _extract_massive_content has returned extraction_result[r]
ExtractionReturned(r) == pc[r] = "consolidate"

\* the futures of the pool of run r, in the order of their submission
FuturesInOrder(r) == [i \in DOMAIN pool_keys[r] |-> futures[r][pool_keys[r][i]]]

\* the task of future f returned a document
Succeeded(f) == ~Failed(f) /\ Get(f.result, "success", FALSE)

\* the documents of the tasks of run r that succeeded, in submission order
DocumentsOf(r) ==
    LET kept == SelectSeq(FuturesInOrder(r), Succeeded)
    IN [i \in DOMAIN kept |-> kept[i].result]

\* C9: when n urls are submitted, the extractor fails or times out on k of
\* them and returns an accepted content for the n-k others, the extraction
\* result holds the n-k documents of those tasks, and neither the
\* extraction nor a later step before the save raises.
C9_ExtractionCountUnderFailures ==
    \A r \in Runs :
        /\ RaisesOnlyAtSave(r)
        /\ ExtractionReturned(r) =>
            LET fs == FuturesInOrder(r)
                n == Len(fs)
                k == Cardinality({i \in DOMAIN fs : Failed(fs[i])})
            IN
            /\ extraction_result[r].extracted_content = DocumentsOf(r)
            /\ (\A i \in DOMAIN fs : Failed(fs[i]) \/ Succeeded(fs[i])) =>
                /\ extraction_result[r].total_content_extracted = n - k
                /\ Len(extraction_result[r].extracted_content) = n - k

\* an extraction has returned in which a task failed and every other task
\* returned a document
C9_Witness ==
    \E r \in Runs :
        /\ ExtractionReturned(r)
        /\ \E i \in DOMAIN futures[r] : Failed(futures[r][i])
        /\ \E i \in DOMAIN futures[r] : Succeeded(futures[r][i])
        /\ \A i \in DOMAIN futures[r] :
            Failed(futures[r][i]) \/ Succeeded(futures[r][i])

\* C10: a task whose fetch raised or on which the orchestrator timed out
\* adds no document, no characters to total_content_chars and no entry to
\* quality_scores, whatever it does afterwards: what the extraction added is
\* what the tasks that succeeded added.
C10_FailedTaskAddsNothing ==
    \A r \in Runs :
        ExtractionReturned(r) =>
            /\ \A i \in DOMAIN extracted_content[r] :
                ~Failed(futures[r][extracted_content[r][i].extraction_index])
            /\ collection_stats.total_content_chars =
                stats_before[r].phase.total_content_chars
                    + CharsOf(DocumentsOf(r))
            /\ Len(quality_scores) =
                Len(stats_before[r].phase.quality_scores) + Len(DocumentsOf(r))

\* what a reader of the snapshot of run r finds in it: the per-provider
\* map of the snapshot is the dict of collection_stats itself (line 386)
SnapshotValue(r) ==
    [massive_json[r] EXCEPT
        !.estatisticas_coleta.fontes_por_provedor = sources_by_provider]

\* C11: once _consolidate_massive_json has returned the snapshot of a run,
\* no later step of the collector (the save, the validation, a later run)
\* changes a value reachable from it, its per-provider count map included.
C11_SnapshotImmutable ==
    [][\A r \in Runs :
        massive_json[r] # Unset => SnapshotValue(r)' = SnapshotValue(r)]_vars

\* the validator has run on the snapshot of run r
Validated(r) == validation_results[r] # Unset

\* the readiness map marks the module ready: the flag of the key that names
\* it ("provas_visuais" for "provas_visuais_arsenal") is true
MarkedReady(preparacao, modulo) ==
    LET flags == Get(preparacao, "dados_prontos_para", EmptyDict) IN
    \E key \in DOMAIN flags : Range(key) \subseteq Range(modulo) /\ flags[key]

\* C12: the validator lists a module of the catalogue as feasible if and
\* only if the readiness map of the snapshot marks it ready; for a snapshot
\* of the consolidator, whose flags are all true, all 8 modules are listed.
C12_ModuleFeasibility ==
    \A r \in Runs :
        Validated(r) =>
            LET preparacao == massive_json[r].preparacao_para_analises
                feasible == validation_results[r].modulos_viabilizados
            IN
            /\ \A i \in DOMAIN ModulosPossiveis :
                (\E j \in DOMAIN feasible : feasible[j] = ModulosPossiveis[i])
                    <=> MarkedReady(preparacao, ModulosPossiveis[i])
            /\ feasible = ModulosPossiveis
            /\ Len(feasible) = 8

\* the total of extracted characters and the average quality the snapshot
\* states, 0 when it states none
TotalOf(json) ==
    Get(Get(json, "estatisticas_coleta", EmptyDict),
        "total_caracteres_extraidos", 0)
AverageOf(json) ==
    Get(Get(json, "estatisticas_coleta", EmptyDict),
        "qualidade_media_conteudo", Ratio(0, 1))

\* the snapshot with another entry in its statistics
WithStat(json, key, value) ==
    ("estatisticas_coleta" :>
        ((key :> value) @@ Get(json, "estatisticas_coleta", EmptyDict)))
    @@ json

\* the problems of a report with the given label
ProblemsOf(report, label) ==
    SelectSeq(report.problemas_identificados, LAMBDA p : p.problema = label)

\* C13: dados_suficientes_para_analise is true if and only if the total of
\* extracted characters of the snapshot is at least 50,000 (50,000 itself
\* passes); otherwise a volume problem with the actual and the required
\* figure is recorded; with another total and nothing else changed, the
\* volume flag follows the total and the other flags stay as they are.
C13_VolumeThreshold ==
    \A r \in Runs :
        Validated(r) =>
            LET json == massive_json[r]
                report == validation_results[r]
                volume == ProblemsOf(report, "Volume insuficiente")
            IN
            /\ report.dados_suficientes_para_analise <=> TotalOf(json) >= 50000
            /\ IF TotalOf(json) >= 50000 THEN volume = <<>>
               ELSE /\ Len(volume) = 1
                    /\ volume[1].valor = TotalOf(json)
                    /\ volume[1].minimo = 50000
            /\ \A t \in Totals :
                LET other == ValidateMassiveData(
                                WithStat(json, "total_caracteres_extraidos", t))
                IN
                /\ other.dados_suficientes_para_analise <=> t >= 50000
                /\ other.qualidade_aprovada = report.qualidade_aprovada
                /\ other.modulos_viabilizados = report.modulos_viabilizados

\* a snapshot of exactly 50,000 characters and a low average was validated
C13_Witness ==
    \E r \in Runs :
        /\ Validated(r)
        /\ TotalOf(massive_json[r]) = 50000
        /\ validation_results[r].dados_suficientes_para_analise
        /\ ~validation_results[r].qualidade_aprovada

\* the average a/b is at least n
AtLeast(avg, n) == avg.num >= n * avg.den

\* C14: qualidade_aprovada is true if and only if the average quality of
\* the snapshot is at least 60 (60 itself passes); otherwise a quality
\* problem is recorded; the flag never falls when the average rises, and
\* with another total of characters it stays as it is.
C14_QualityThreshold ==
    \A r \in Runs :
        Validated(r) =>
            LET json == massive_json[r]
                report == validation_results[r]
                quality == ProblemsOf(report, "Qualidade baixa")
            IN
            /\ report.qualidade_aprovada <=> AtLeast(AverageOf(json), 60)
            /\ IF AtLeast(AverageOf(json), 60) THEN quality = <<>>
               ELSE Len(quality) = 1 /\ quality[1].valor = AverageOf(json)
            /\ \A q \in Averages :
                LET other == ValidateMassiveData(
                                WithStat(json, "qualidade_media_conteudo", q))
                IN
                /\ (q.num * AverageOf(json).den >= AverageOf(json).num * q.den
                        /\ report.qualidade_aprovada) => other.qualidade_aprovada
                /\ other.dados_suficientes_para_analise =
                        report.dados_suficientes_para_analise
            /\ \A t \in Totals :
                ValidateMassiveData(
                    WithStat(json, "total_caracteres_extraidos", t)
                ).qualidade_aprovada = report.qualidade_aprovada

\* a snapshot of average exactly 60 and too few characters was validated
C14_Witness ==
    \E r \in Runs :
        /\ Validated(r)
        /\ AverageOf(massive_json[r]) = Ratio(120, 2)
        /\ validation_results[r].qualidade_aprovada
        /\ ~validation_results[r].dados_suficientes_para_analise

\* the exception of run r was raised after the save had returned the path:
\* it is the validator's
ValidatorRaised(r) == raised[r] # Unset /\ json_file_path[r] # Unset

C16_ValidatorReadsOnly ==
    [][\A r \in Runs :
        (pc[r] = "validate" /\ pc'[r] # "validate") =>
            /\ massive_json'[r] = massive_json[r]
            /\ sources_by_provider' = sources_by_provider
            /\ quality_scores' = quality_scores]_vars

\* the validator has returned a report with problems and recommendations
C16_Witness ==
    \E r \in Runs :
        /\ Validated(r)
        /\ validation_results[r].problemas_identificados # <<>>
        /\ validation_results[r].recomendacoes # <<>>

\* the documents that exist in a state: those the tasks of a run returned
\* and those of its extraction result
Documents ==
    UNION {{futures[r][k].result : k \in {k \in DOMAIN futures[r] :
                Get(futures[r][k].result, "success", FALSE)}} : r \in Runs}
    \cup UNION {Range(extracted_content[r]) : r \in Runs}
    \cup UNION {Range(Get(extraction_result[r], "extracted_content", <<>>)) :
                    r \in Runs}

\* C17: for every text and every source tag _calculate_content_quality
\* returns a value from 0 to 100: every document of every extraction
\* result, and every score the collector keeps, lies in [0, 100].
C17_QualityScoreRange ==
    /\ \A d \in Documents : d.quality_score >= 0 /\ d.quality_score <= 100
    /\ \A i \in DOMAIN quality_scores :
        quality_scores[i] >= 0 /\ quality_scores[i] <= 100

\* an extraction has returned a document with many numbers and money values
C17_Witness ==
    \E r \in Runs :
        /\ ExtractionReturned(r)
        /\ \E d \in Range(extraction_result[r].extracted_content) :
            d.content.numbers * 2 > 20 /\ d.content.money * 3 > 15

\* the score as the specification gives it
ScoreOf(chars, words, numbers, money, tag) ==
    LET size == IF chars >= 2000 THEN 25 ELSE IF chars >= 1000 THEN 15 ELSE 5
        density == IF words >= 300 THEN 25 ELSE IF words >= 150 THEN 15 ELSE 5
        bonus == CASE tag = "exa" -> 10
                   [] tag = "websailor" -> 8
                   [] tag \in {"google", "serper"} -> 6
                   [] OTHER -> 0
    IN Min(size + density + Min(2 * numbers, 20) + Min(3 * money, 15) + bonus,
           100)

\* C18: the score of a document depends on its text and its source tag
\* only, whatever the collector holds and has scored before, and is: 25, 15
\* or 5 for the length (from 2000, from 1000, below), 25, 15 or 5 for the
\* words (from 300, from 150, below), min(2 x numbers, 20), min(3 x money
\* values, 15), and 10 for exa, 8 for websailor, 6 for google or serper and
\* 0 for another tag, capped at 100.
C18_QualityScoreFormula ==
    \A d \in Documents :
        d.quality_score =
            ScoreOf(d.content.chars, d.content.words, d.content.numbers,
                    d.content.money, d.source)

\* a document from bing was scored on a collector that had scored before
C18_Witness ==
    \E r \in Runs :
        /\ Len(quality_scores) = 2
        /\ \E d \in Range(extracted_content[r]) :
            d.source = "bing" /\ d.content.chars = 1000 /\ d.content.words = 150

\* C19: an extraction task yields a document if and only if the extractor
\* returned a content and it is not shorter than 200 characters (200
\* characters make a document, 199 do not); a task with no document is not
\* an error.
C19_MinimumContentLength ==
    \A r \in Runs :
        /\ RaisesOnlyAtSave(r)
        /\ \A k \in DOMAIN futures[r] :
            LET f == futures[r][k] IN
            (f.status = "done" /\ f.fetched # Unset) =>
                (Get(f.result, "success", FALSE)
                    <=> (f.fetched # NoText /\ f.fetched.chars >= 200))

\* C20: the reported rate is extracted count / found count x 100, with the
\* number of harvested urls as found count; it is 0 when no url was found,
\* with no division by zero, and it lies in [0, 100] in every run.
C20_ExtractionSuccessRate ==
    \A r \in Runs :
        extraction_result[r] # Unset =>
            LET rate == extraction_result[r].extraction_success_rate
                found == Len(all_urls[r])
                extracted == Len(extracted_content[r])
            IN
            /\ extraction_result[r].total_urls_found = found
            /\ extraction_result[r].total_content_extracted = extracted
            /\ rate.den > 0
            /\ found > 0 => rate.num * found = extracted * 100 * rate.den
            /\ found = 0 => rate.num = 0
            /\ rate.num >= 0 /\ rate.num <= 100 * rate.den

\* a run found no url, and another extracted from one of the urls it found
C20_Witness ==
    /\ \E r \in Runs :
        extraction_result[r] # Unset /\ Len(all_urls[r]) = 0
    /\ \E r \in Runs :
        /\ extraction_result[r] # Unset
        /\ Len(all_urls[r]) > 0

\* C21: every document extracted from a url tagged "exa" whose text has
\* 2,000 characters, at least 300 words and at least one numeric token has
\* a quality score of at least 75.
C21_ScenarioBHighQuality ==
    \A d \in Documents :
        (/\ d.source = "exa"
         /\ d.content.chars = 2000
         /\ d.content.words >= 300
         /\ d.content.numbers >= 1)
            => d.quality_score >= 75

\* no adapter has yielded an item, raised or outlasted a timeout, and the
\* extractor has returned no text: the environment has produced no event
NothingYielded == env.events = MaxEvents

\* C22: when no web, social or deep-navigation adapter yields any item, the
\* snapshot of the run has empty web and social collections and no
\* extracted document, 0 characters extracted, and its report has
\* sufficient volume false and a problem listed.
C22_ScenarioANothingConfigured ==
    \A r \in Runs :
        (Validated(r) /\ NothingYielded) =>
            LET json == massive_json[r]
                web == json.dados_web_completos
                social == json.dados_sociais_completos
            IN
            /\ \A p \in DOMAIN web.results : web.results[p] = <<>>
            /\ web.total_web_sources = 0
            /\ \A p \in DOMAIN social.data :
                Get(social.data[p], "results", <<>>) = <<>>
            /\ social.total_social_sources = 0
            /\ json.conteudo_extraido_massivo.conteudo_completo = <<>>
            /\ json.estatisticas_coleta.total_caracteres_extraidos = 0
            /\ ~ validation_results[r].dados_suficientes_para_analise
            /\ validation_results[r].problemas_identificados # <<>>

\* collect_massive_data has returned collection_result[r]
Returned(r) == pc[r] = "returned"

\* C23: a negative verdict is not an error.  Once the phases of a run have
\* completed, its snapshot is saved and the validator has reported, the run
\* raises nothing and returns; the result has success = true and holds the
\* snapshot, the path of its file, the statistics and the report, whether
\* the report finds the volume sufficient and the quality approved or not.
C23_NegativeVerdictIsNoError ==
    \A r \in Runs :
        Validated(r) =>
            /\ json_file_path[r] # Unset
            /\ pc[r] \in {"finish", "returned"}
            /\ raised[r] = Unset
            /\ pc[r] = "finish" => ENABLED Return(r)
            /\ Returned(r) =>
                /\ collection_result[r].success = TRUE
                /\ collection_result[r].massive_data = massive_json[r]
                /\ collection_result[r].massive_json_path = json_file_path[r]
                /\ collection_result[r].validation_results = validation_results[r]
                /\ \A key \in {"web_sources", "social_sources", "youtube_sources",
                               "total_content_chars"} :
                    key \in DOMAIN collection_result[r].collection_stats
                /\ collection_result[r].collection_stats.sources_by_provider
                        = SourcesByProviderRef
                /\ collection_result[r].collection_stats.quality_scores
                        = QualityScoresRef

\* a run has returned a report with both verdicts negative, and another a
\* report with sufficient volume
C23_Witness ==
    /\ \E r \in Runs :
        /\ Returned(r)
        /\ ~ validation_results[r].dados_suficientes_para_analise
        /\ ~ validation_results[r].qualidade_aprovada
    /\ \E r \in Runs :
        /\ Returned(r)
        /\ validation_results[r].dados_suficientes_para_analise

\* the exception run r has caught or raised is one its callback raised
FailedByCallback(r) ==
    /\ pc[r] \in {"except", "raised"}
    /\ "callback_step" \in DOMAIN raised[r]

\* C24: the progress callback cannot alter the outcome of a run: with any
\* callback, one that raises at a step included, the run ends as it ends
\* with no callback.  A run with no callback never fails with an exception
\* of a callback, so: no run fails with the exception its callback raised.
C24_CallbackCannotAlterOutcome ==
    \A r \in Runs : ~ FailedByCallback(r)

\* a worker task of the pool of run r has not ended
WorkerRunning(r) ==
    \E k \in DOMAIN futures[r] : futures[r][k].status \in {"running", "hung"}

\* the callback of run r is called in this step
CallbackCalled(r) == progress_callback'[r].calls # progress_callback[r].calls

\* the steps the callback of run r was called with are the first steps of
\* 1, 2, 4, 6, 8, 10, 11, 12, in that order
CallsInOrder(r) ==
    LET calls == progress_callback[r].calls
        steps == <<1, 2, 4, 6, 8, 10, 11, 12>>
    IN /\ Len(calls) <= Len(steps)
       /\ \A i \in DOMAIN calls : calls[i] = steps[i]

\* C25: the callback is called by the orchestrating thread where it passes
\* from one phase to the next, never while a worker task of a pool of the
\* run has not ended; each step is reported at most once per run and the
\* steps come in the order 1, 2, 4, 6, 8, 10, 11, 12.
C25_CallbackPoints ==
    /\ [](\A r \in Runs : CallsInOrder(r))
    /\ [][\A r \in Runs :
            CallbackCalled(r) =>
                /\ pc'[r] # pc[r]
                /\ ~ WorkerRunning(r)
                /\ ~ WorkerRunning(r)']_vars

\* a run whose callback was called with every step has returned, after a
\* run whose callback raised at step 6
C25_Witness ==
    /\ \E r \in Runs :
        /\ Returned(r)
        /\ progress_callback[r].calls = <<1, 2, 4, 6, 8, 10, 11, 12>>
    /\ \E r \in Runs :
        /\ pc[r] = "raised"
        /\ progress_callback[r].calls = <<1, 2, 4, 6>>

\* the orchestrating thread of run r leaves phase from in this step
Leaves(r, from) == pc[r] = from /\ pc'[r] # from

\* C26: in every run the web fan-out has completed when the social fan-out
\* starts, the social fan-out has completed when the deep navigation
\* starts, the three collectors have returned when the extraction tasks are
\* submitted, the extraction pool has drained when the consolidation
\* starts, and the snapshot was saved when the validator runs.
C26_PhaseOrder ==
    /\ [](\A r \in Runs :
            /\ pc[r] \in {"idle", "web", "web_collect"} =>
                social_results[r] = Unset /\ websailor_data[r] = Unset
            /\ pc[r] \in {"social", "social_collect", "websailor"} =>
                websailor_data[r] = Unset
            /\ pc[r] \in {"idle", "web", "web_collect", "social",
                          "social_collect", "websailor", "extract"} =>
                /\ all_urls[r] = <<>>
                /\ extraction_result[r] = Unset
                /\ massive_json[r] = Unset
            /\ massive_json[r] = Unset => json_file_path[r] = Unset
            /\ json_file_path[r] = Unset => validation_results[r] = Unset)
    /\ [][\A r \in Runs :
            /\ Leaves(r, "social") =>
                /\ web_results[r] # Unset
                /\ DOMAIN futures[r] \subseteq Range(WebProviders)
                /\ ~ WorkerRunning(r)
            /\ Leaves(r, "websailor") =>
                /\ social_results[r] # Unset
                /\ DOMAIN futures[r] = Range(Platforms)
                /\ ~ WorkerRunning(r)
            /\ Leaves(r, "extract") =>
                /\ web_results[r] # Unset
                /\ social_results[r] # Unset
            /\ pc'[r] = "social" => pc[r] \in {"social", "web_collect"}
            /\ pc'[r] = "websailor" => pc[r] \in {"websailor", "social_collect"}
            /\ pc'[r] = "extract" => pc[r] \in {"extract", "websailor"}
            /\ pc'[r] = "extract_collect" =>
                pc[r] \in {"extract_collect", "extract"}
            /\ pc'[r] = "consolidate" =>
                pc[r] \in {"consolidate", "extract_collect"}
            /\ pc'[r] = "validate" => pc[r] \in {"validate", "save"}
            /\ Leaves(r, "consolidate") =>
                /\ extraction_result[r] # Unset
                /\ ~ WorkerRunning(r)
            /\ Leaves(r, "validate") => json_file_path[r] # Unset]_vars

\* a run that extracted a document has returned
C26_Witness ==
    \E r \in Runs :
        /\ Returned(r)
        /\ extracted_content[r] # <<>>
        /\ validation_results[r] # Unset

\* a pool orchestrator of run r has returned, and futures[r] are its tasks
FanOutReturned(r) == WebReturned(r) \/ SocialReturned(r) \/ ExtractionReturned(r)

\* a worker task of run r ends in this step
TaskEnds(r) ==
    \E k \in DOMAIN futures[r] :
        /\ futures[r][k].status = "running"
        /\ k \in DOMAIN futures'[r]
        /\ futures'[r][k].status # "running"

\* C27: when a pool orchestrator returns, every task it launched has
\* settled (it finished, failed or timed out) and none is still running; no
\* task ends, and so none writes into the returned mapping or into
\* collection_stats, after its orchestrator has returned, and the returned
\* mapping and document list are not written again.
C27_NoLateDelivery ==
    /\ [](\A r \in Runs :
            FanOutReturned(r) =>
                /\ \A k \in DOMAIN futures[r] :
                    futures[r][k].status = "done" \/ Failed(futures[r][k])
                /\ ~ WorkerRunning(r))
    /\ [][\A r \in Runs :
            /\ TaskEnds(r) =>
                pc[r] \in {"web_collect", "social_collect", "extract_collect"}
            /\ pc[r] \notin {"idle", "web", "web_collect"} =>
                web_results'[r] = web_results[r]
            /\ pc[r] \notin {"idle", "web", "web_collect", "social",
                             "social_collect"} =>
                social_results'[r] = social_results[r]
            /\ FanOutReturned(r) =>
                /\ quality_scores' = quality_scores
                /\ collection_stats' = collection_stats
                /\ sources_by_provider' = sources_by_provider
            /\ extraction_result[r] # Unset =>
                /\ extracted_content'[r] = extracted_content[r]
                /\ extraction_result'[r] = extraction_result[r]]_vars

\* an extraction has returned after the orchestrator gave up on a task that
\* ended later, and a web fan-out has returned
C27_Witness ==
    \E r \in Runs :
        /\ ExtractionReturned(r)
        /\ \E k \in DOMAIN futures[r] :
            futures[r][k].timed_out /\ futures[r][k].status = "done"
        /\ web_results[r] # Unset

\* C28: during the pool phases no worker task writes to collection_stats:
\* a step in which a task ends leaves the counters, the provider dict and
\* the list of quality scores as they are, and the orchestrating thread
\* alone updates them.
C28_StatsMergedByPhaseThread ==
    [][\A r \in Runs :
        TaskEnds(r) =>
            /\ collection_stats' = collection_stats
            /\ sources_by_provider' = sources_by_provider
            /\ quality_scores' = quality_scores]_vars

\* the documents the tasks of run r returned, timed out or not, in the
\* order of their submission
ScoredOf(r) ==
    LET kept == SelectSeq(FuturesInOrder(r),
                          LAMBDA f : Get(f.result, "success", FALSE))
    IN [i \in DOMAIN kept |-> kept[i].result]

\* C29: what a pool phase returns and adds to collection_stats is
\* determined by the outcomes of its tasks (what each returned, and whether
\* it raised or timed out), whatever the order in which the tasks ended: the
\* mapping holds each task's result under its key, the documents are in
\* submission order, and the counts, the characters and the sum and number
\* of the quality scores (so, their average) are the sums over the tasks.
C29_OrderIndependence ==
    \A r \in Runs :
        /\ WebReturned(r) =>
            /\ \A p \in DOMAIN futures[r] :
                web_results[r].results[p] =
                    IF Failed(futures[r][p]) THEN <<>> ELSE futures[r][p].result
            /\ web_results[r].total_web_sources =
                SumOver([p \in DOMAIN futures[r] |->
                            Len(web_results[r].results[p])], DOMAIN futures[r])
            /\ collection_stats.web_sources = web_results[r].total_web_sources
        /\ SocialReturned(r) =>
            /\ \A p \in DOMAIN futures[r] :
                social_results[r].data[p] =
                    IF Failed(futures[r][p]) THEN EmptyDict
                    ELSE futures[r][p].result
            /\ social_results[r].total_social_sources =
                SumOver([p \in DOMAIN futures[r] |-> Contribution(futures[r][p])],
                        DOMAIN futures[r])
            /\ collection_stats.youtube_sources
                    + collection_stats.social_sources =
                stats_before[r].phase.youtube_sources
                    + stats_before[r].phase.social_sources
                    + social_results[r].total_social_sources
        /\ ExtractionReturned(r) =>
            /\ extracted_content[r] = DocumentsOf(r)
            /\ extraction_result[r].extracted_content = DocumentsOf(r)
            /\ collection_stats.total_content_chars =
                stats_before[r].phase.total_content_chars
                    + CharsOf(DocumentsOf(r))
            /\ Len(quality_scores) =
                Len(stats_before[r].phase.quality_scores) + Len(ScoredOf(r))
            /\ SumSeq(quality_scores) =
                SumSeq(stats_before[r].phase.quality_scores)
                    + SumSeq([i \in DOMAIN ScoredOf(r) |->
                                ScoredOf(r)[i].quality_score])

\* an extraction has returned two documents of different scores, of which
\* the second one submitted was scored first
C29_Witness ==
    \E r \in Runs :
        /\ ExtractionReturned(r)
        /\ Len(DocumentsOf(r)) = 2
        /\ Len(quality_scores) >= 2
        /\ quality_scores[Len(quality_scores) - 1] = DocumentsOf(r)[2].quality_score
        /\ quality_scores[Len(quality_scores)] = DocumentsOf(r)[1].quality_score
        /\ DocumentsOf(r)[1].quality_score # DocumentsOf(r)[2].quality_score

\* _collect_websailor_deep_data has returned to run r
DeepReturned(r) ==
    pc[r] \in {"extract", "extract_collect", "consolidate", "save", "validate",
               "finish", "returned"}

\* the call of the deep navigator of run r raised
NavigatorRaised(r) ==
    websailor_calls[r] # <<>> /\ websailor_calls[r][1].raised

\* C30: the deep navigation is best effort.  A run calls the navigator
\* once, with max_pages = 50 and depth_levels = 3; when the call raises,
\* _collect_websailor_deep_data returns an empty dict, the run raises
\* nothing for it and goes on to extract, consolidate, save and validate,
\* and no url of the navigator is submitted for extraction.
C30_DeepNavigationBestEffort ==
    \A r \in Runs :
        /\ Len(websailor_calls[r]) <= 1
        /\ DeepReturned(r) => Len(websailor_calls[r]) = 1
        /\ pc[r] \in {"idle", "web", "web_collect", "social", "social_collect",
                      "websailor"} => websailor_calls[r] = <<>>
        /\ \A i \in DOMAIN websailor_calls[r] :
            /\ websailor_calls[r][i].max_pages = 50
            /\ websailor_calls[r][i].depth_levels = 3
        /\ NavigatorRaised(r) =>
            /\ websailor_data[r] = EmptyDict
            /\ RaisesOnlyAtSave(r)
            /\ pc[r] = "extract" => ENABLED ExtractSubmit(r)
            /\ pc[r] = "consolidate" => ENABLED ConsolidateMassiveJson(r)
            /\ pc[r] = "validate" => ENABLED Validate(r)
            /\ \A i \in DOMAIN all_urls[r] : all_urls[r][i].source # "websailor"
            /\ massive_json[r] # Unset =>
                massive_json[r].dados_websailor_profundos = EmptyDict

\* a run whose navigator call raised has extracted from the url of another
\* collector and has been validated
C30_Witness ==
    \E r \in Runs :
        /\ NavigatorRaised(r)
        /\ Validated(r)
        /\ all_urls[r] # <<>>
        /\ Returned(r)

\* the place of a phase in collect_massive_data
PhaseRank(phase) ==
    CASE phase = "idle" -> 0
      [] phase = "web" -> 1
      [] phase = "web_collect" -> 2
      [] phase = "social" -> 3
      [] phase = "social_collect" -> 4
      [] phase = "websailor" -> 5
      [] phase = "extract" -> 6
      [] phase = "extract_collect" -> 7
      [] phase = "consolidate" -> 8
      [] phase = "save" -> 9
      [] phase = "validate" -> 10
      [] phase = "finish" -> 11
      [] phase = "returned" -> 12
      [] phase = "except" -> 13
      [] phase = "raised" -> 14

\* the collaborator of the task of future f has been called
Invoked(f) == f.collab # "pending" \/ f.status = "hung"

\* C31: no retry.  Within a run no phase is entered again, so each pool is
\* submitted once with one task per provider, platform or url; and a task
\* whose collaborator has been called, or on which the orchestrator timed
\* out, is not started again: it stays ended (or hung), with the outcome it
\* had, and stays timed out.
C31_NoRetry ==
    [][\A r \in Runs :
        /\ PhaseRank(pc'[r]) >= PhaseRank(pc[r])
        /\ pc[r] \in {"web_collect", "social_collect", "extract_collect"} =>
            /\ DOMAIN futures'[r] = DOMAIN futures[r]
            /\ \A k \in DOMAIN futures[r] :
                LET f == futures[r][k]
                    g == futures'[r][k]
                IN
                /\ Invoked(f) =>
                    /\ g.collab = f.collab
                    /\ g.status = f.status
                    /\ g.result = f.result
                /\ f.timed_out => g.timed_out]_vars

\* an extraction has returned in which the extractor raised for one task
\* and the orchestrator timed out on another
C31_Witness ==
    \E r \in Runs :
        /\ ExtractionReturned(r)
        /\ \E k \in DOMAIN futures[r] : futures[r][k].collab = "raise"
        /\ \E k \in DOMAIN futures[r] : futures[r][k].timed_out

\* the extraction tasks of run r have been submitted
ExtractionSubmitted(r) == pc[r] \in {"extract_collect", "consolidate"}

\* the place of a source tag in the harvest: web providers, then social
\* platforms, then the deep navigator
OriginRank(source) ==
    IF source \in Range(WebProviders) \cup {"web"} THEN 1
    ELSE IF source = "websailor" THEN 3 ELSE 2

\* C32: at most 100 extraction tasks are submitted in a run, for the first
\* 100 entries of the harvested list, task i for entry i; the list is in
\* harvest order (web, then social, then deep navigation); and there are
\* never more documents than min(100, harvested urls).
C32_ExtractionCap ==
    \A r \in Runs :
        ExtractionSubmitted(r) =>
            LET found == Len(all_urls[r])
                n == IF found <= 100 THEN found ELSE 100
            IN
            /\ Len(pool_keys[r]) = n
            /\ \A i \in DOMAIN pool_keys[r] : pool_keys[r][i] = i - 1
            /\ DOMAIN futures[r] = 0..(n - 1)
            /\ \A i \in 1..(found - 1) :
                OriginRank(all_urls[r][i].source)
                    <= OriginRank(all_urls[r][i + 1].source)
            /\ \A k \in DOMAIN futures[r] :
                LET d == futures[r][k].result IN
                Get(d, "success", FALSE) =>
                    /\ d.extraction_index = k
                    /\ d.url = all_urls[r][k + 1].url
                    /\ d.source = all_urls[r][k + 1].source
            /\ Len(extracted_content[r]) <= n
            /\ \A i \in DOMAIN extracted_content[r] :
                extracted_content[r][i].extraction_index < 100

\* an extraction over 123 harvested urls has returned the document of its
\* last task, the hundredth
C32_Witness ==
    \E r \in Runs :
        /\ ExtractionReturned(r)
        /\ Len(all_urls[r]) = 123
        /\ \E i \in DOMAIN extracted_content[r] :
            extracted_content[r][i].extraction_index = 99

\* C33: every snapshot built by _consolidate_massive_json has exactly the
\* eight named per-module data-ready flags and each of them is true,
\* whatever was collected, an empty collection included.
EmptyCollection(r) ==
    /\ \A p \in DOMAIN web_results[r].results : web_results[r].results[p] = <<>>
    /\ web_results[r].total_web_sources = 0
    /\ Get(extraction_result[r], "total_content_extracted", 0) = 0

C33_ReadinessAtConsolidation ==
    \A r \in Runs :
        massive_json[r] # Unset =>
            LET flags == massive_json[r].preparacao_para_analises.dados_prontos_para
            IN
            /\ DOMAIN flags = ReadinessKeys
            /\ \A k \in ReadinessKeys : flags[k] = TRUE

C33_Witness ==
    \E r \in Runs :
        /\ massive_json[r] # Unset
        /\ EmptyCollection(r)
        /\ \A k \in ReadinessKeys :
            massive_json[r].preparacao_para_analises.dados_prontos_para[k]

\* the three entries that _validate_massive_data can recommend
BroadenSources == "Execute nova coleta com mais APIs configuradas"
HigherTrustProviders == "Configure APIs premium para melhor qualidade"
InsufficientDiversity ==
    "Dados insuficientes para alguns modulos - configure mais fontes"

\* C34: the recommendation list of a validator report holds the
\* broaden-sources entry exactly when sufficient-volume is false, the
\* higher-trust-providers entry exactly when quality-approved is false, the
\* insufficient-diversity entry exactly when fewer than 6 modules are
\* feasible, each at most once, and nothing else.
C34_Recommendations ==
    \A r \in Runs :
        validation_results[r] # Unset =>
            LET v == validation_results[r]
                rec == v.recomendacoes
                entries == {rec[i] : i \in DOMAIN rec}
            IN
            /\ BroadenSources \in entries <=> ~ v.dados_suficientes_para_analise
            /\ HigherTrustProviders \in entries <=> ~ v.qualidade_aprovada
            /\ InsufficientDiversity \in entries
                <=> Len(v.modulos_viabilizados) < 6
            /\ entries \subseteq
                {BroadenSources, HigherTrustProviders, InsufficientDiversity}
            /\ Cardinality(entries) = Len(rec)

C34_Witness ==
    \E r \in Runs :
        /\ validation_results[r] # Unset
        /\ Len(validation_results[r].modulos_viabilizados) = 6
        /\ ~ validation_results[r].dados_suficientes_para_analise
        /\ validation_results[r].qualidade_aprovada
        /\ validation_results[r].recomendacoes = <<BroadenSources>>

\* C35: in the extraction result of a run, the total extracted is the length
\* of the document list, the characters total is the sum of content_length
\* over the documents of that list, the average content length is that sum
\* divided by the document count (0 when there are no documents), and the
\* per-source-tag counts sum to the document count.
C35_ExtractionStatistics ==
    \A r \in Runs :
        pc[r] = "consolidate" =>
            LET e == extraction_result[r]
                docs == e.extracted_content
                chars == SumSeq([i \in DOMAIN docs |-> docs[i].content_length])
                tags == e.extraction_stats.sources_by_type
            IN
            /\ e.total_content_extracted = Len(docs)
            /\ e.extraction_stats.total_chars = chars
            /\ e.extraction_stats.avg_content_length =
                (IF docs = <<>> THEN Ratio(0, 1) ELSE Ratio(chars, Len(docs)))
            /\ SumOver(tags, DOMAIN tags) = Len(docs)

\* the items of list items whose url is u
WithUrl(items, u) == Cardinality({i \in DOMAIN items : items[i].url = u})

\* the items with url u that the three collectors returned to run r
HarvestedWithUrl(r, u) ==
    SumOver([p \in Range(WebProviders) |->
                WithUrl(web_results[r].results[p], u)], Range(WebProviders))
    + SumOver([p \in Range(Platforms) |->
                WithUrl(Get(social_results[r].data[p], "results", <<>>), u)],
              Range(Platforms))
    + WithUrl(FontesDetalhadas(websailor_data[r]), u)

\* C36: the harvest does not deduplicate.  The extraction task list has
\* exactly one entry per harvested item with a non-empty url, so a url
\* returned by k providers or platforms yields k tasks, and
\* total_urls_found counts every one of them.
C36_NoUrlDeduplication ==
    \A r \in Runs :
        pc[r] = "consolidate" =>
            /\ \A u \in {all_urls[r][i].url : i \in DOMAIN all_urls[r]} : u # ""
            /\ \A u \in Urls \ {""} :
                WithUrl(all_urls[r], u) = HarvestedWithUrl(r, u)
            /\ extraction_result[r].total_urls_found = Len(all_urls[r])

\* how many entries of list s equal x
Occurrences(s, x) == Cardinality({i \in DOMAIN s : s[i] = x})

\* C37: the snapshot's average quality is the mean of its own documents.  At
\* the end of the extraction phase of a run quality_scores has exactly one
\* entry per document of the extraction result, the same multiset as the
\* documents' quality_score fields; and qualidade_media_conteudo of the
\* snapshot is the mean quality_score of the documents of conteudo_completo,
\* 0 when there are none.
C37_AverageQualityOfOwnDocuments ==
    \A r \in Runs :
        /\ pc[r] = "consolidate" =>
            LET docs == extraction_result[r].extracted_content
                scores == [i \in DOMAIN docs |-> docs[i].quality_score]
            IN
            /\ Len(quality_scores) = Len(docs)
            /\ \A s \in Range(quality_scores) \cup Range(scores) :
                Occurrences(quality_scores, s) = Occurrences(scores, s)
        /\ massive_json[r] # Unset =>
            LET docs == massive_json[r].conteudo_extraido_massivo.conteudo_completo
                total == SumSeq([i \in DOMAIN docs |-> docs[i].quality_score])
                mean == massive_json[r].estatisticas_coleta.qualidade_media_conteudo
            IN
            IF docs = <<>> THEN mean.num = 0
            ELSE mean.num * Len(docs) = total * mean.den

\* the documents of list contents are in strictly increasing
\* extraction_index, each index a submission index below the cap
InSubmissionOrder(contents) ==
    /\ \A i \in DOMAIN contents : contents[i].extraction_index \in 0..99
    /\ \A i \in 1..(Len(contents) - 1) :
        contents[i].extraction_index < contents[i + 1].extraction_index

\* C38: the documents of an extraction result appear in strictly increasing
\* extraction_index (the order of submission), with distinct indices below
\* 100, whatever the order in which the worker tasks complete.
C38_DocumentOrder ==
    \A r \in Runs :
        /\ InSubmissionOrder(extracted_content[r])
        /\ pc[r] = "consolidate" =>
            /\ extraction_result[r].extracted_content = extracted_content[r]
            /\ InSubmissionOrder(extraction_result[r].extracted_content)
            /\ \A i, j \in DOMAIN extracted_content[r] :
                i # j => extracted_content[r][i].extraction_index
                            # extracted_content[r][j].extraction_index

C38_Witness ==
    \E r \in Runs :
        /\ pc[r] = "consolidate"
        /\ Len(extraction_result[r].extracted_content) >= 2
        /\ extraction_result[r].extracted_content[1].extraction_index = 0
        /\ extraction_result[r].extracted_content[2].extraction_index = 1

(***************************************************************************)
(* src/src/services/enhanced_analysis_engine.py:                           *)
(* generate_enhanced_gigantic_analysis and its ten stages                  *)
(***************************************************************************)
\* the variables of the collector, which the analysis engine does not use
collector_vars ==
    <<collection_stats, sources_by_provider, quality_scores, pc, args,
      futures, pool_keys, cursor, web_results, social_results,
      websailor_data, all_urls, extracted_content, extraction_result,
      massive_json, json_file_path, validation_results,
      collection_result, raised, env, stats_before, progress_callback,
      websailor_calls>>

\* the 'data' argument: with a segment, with an empty segment, without one
AnalysisInputs == {[segmento |-> "s"], [segmento |-> ""], EmptyDict}

\* the ten stages, by the number their progress step carries, lines 70-128
StageNumbers == 1..10

\* the progress_callback argument: None, a callable that returns, a
\* callable that raises when it is called with one of the steps
AnalysisCallbacks ==
    {[kind |-> "none", at |-> 0], [kind |-> "returns", at |-> 0]}
    \cup {[kind |-> "raises", at |-> n] : n \in StageNumbers}

\* where the invocation is while stage n runs
StagePcs ==
    <<"social", "web", "avatar", "drivers", "visual", "anti_objection",
      "pre_pitch", "predictions", "forensic", "scripts">>

\* what follows stage n: the next stage, or the consolidation of line 131
AfterStage(n) == IF n < Len(StagePcs) THEN StagePcs[n + 1] ELSE "consolidate"

\* lines 59, 516: data.get('segmento') is truthy
HasSegmento(data) == Get(data, "segmento", "") # ""

\* 'if progress_callback: progress_callback(n, ...)': the steps the callback
\* has been called with once step n has been notified
StepCalls(n) ==
    IF analysis.progress_callback.kind = "none" THEN analysis.callback_calls
    ELSE Append(analysis.callback_calls, n)

\* the callback raises when it is called with step n
StepRaises(n) ==
    /\ analysis.progress_callback.kind = "raises"
    /\ analysis.progress_callback.at = n

\* progress_callback(n) raised inside the try block: stage n does not start
CallbackAborts(n) ==
    analysis' = [analysis EXCEPT
        !.pc = "except",
        !.callback_calls = StepCalls(n),
        !.raised = [callback_step |-> n]]

\* stage n returned value, after the calls 'called' of its collaborators
StageReturns(n, value, called) ==
    analysis' = [analysis EXCEPT
        !.pc = AfterStage(n),
        !.callback_calls = StepCalls(n),
        !.calls = @ \o called,
        !.stages = Append(@, n),
        !.results = (n :> value) @@ @]

\* a stage that answers its failure with a stand-in value and lets the
\* analysis go on (a variant of StageRaises)
StageFallsBack(n, error, called) ==
    analysis' = [analysis EXCEPT
        !.pc = AfterStage(n),
        !.callback_calls = StepCalls(n),
        !.calls = @ \o called,
        !.stages = Append(@, n),
        !.failed = n,
        !.results = (n :> [fallback |-> TRUE]) @@ @]

\* stage n raised, after the calls 'called' of its collaborators: each stage
\* re-raises what it catches (lines 201-203, 251-253, 364-366, 397-399,
\* 444-446, 477-479, 507-509, 543-545, 592-594, 636-638) and line 169
\* catches it
StageRaises(n, error, called) ==
    analysis' = [analysis EXCEPT
        !.pc = "except",
        !.callback_calls = StepCalls(n),
        !.calls = @ \o called,
        !.stages = Append(@, n),
        !.failed = n,
        !.raised = [stage |-> n, message |-> error]]

\* the responses of a collaborator that returns a value or nothing:
\* an exception, a falsy value, a value
CollaboratorOutcomes == {"raise", "falsy", "ok"}

\* generate_enhanced_gigantic_analysis, lines 47-68: the checks before the
\* try block (the module-level ai_manager and production_search_manager
\* are objects, which are truthy)
GenerateEnhancedGiganticAnalysis ==
    /\ analysis.pc = "idle"
    /\ \E data \in AnalysisInputs, callback \in AnalysisCallbacks :
        analysis' = [analysis EXCEPT
            !.data = data,
            !.progress_callback = callback,
            !.pc = IF HasSegmento(data) THEN "social" ELSE "raised",
            !.raised = IF HasSegmento(data) THEN Unset
                       ELSE [message |-> "SEGMENTO OBRIGATORIO"]]
    /\ UNCHANGED collector_vars

\* the responses of mcp_supadata_manager.search_massive_social_media
SocialSearchOutcomes ==
    {[kind |-> "raise"], [kind |-> "ok", value |-> PyNone],
     [kind |-> "ok", value |-> EmptyDict]}
    \cup {[kind |-> "ok", value |-> [total_insights |-> n]] : n \in {0, 3}}

\* stage 1: lines 70-74 and _execute_firecrwal_massive_search, lines 174-203
ExecuteFirecrwalMassiveSearch ==
    /\ analysis.pc = "social"
    /\ IF StepRaises(1) THEN CallbackAborts(1)
       ELSE \E out \in SocialSearchOutcomes :
            LET called == <<"search_massive_social_media">> IN
            IF out.kind = "ok" /\ Get(out.value, "total_insights", 0) # 0
            THEN StageReturns(1,
                    [firecrwal_results |-> out.value,
                     insights_extracted |-> out.value.total_insights,
                     dados_reais_sociais |-> TRUE], called)
            ELSE StageRaises(1, "Busca social massiva OBRIGATORIA falhou", called)
    /\ UNCHANGED collector_vars

\* "search_results[:30]", line 221
TopResults == 30

\* line 224: "len(content) > 500"
MinWebContentLength == 500

\* what content_extractor.extract_content does for a search result: it
\* returns a text of some length, or raises (length -1)
WebContents == {-1, 0, MinWebContentLength, MinWebContentLength + 1}

\* the responses of production_search_manager.search_with_fallback: an
\* exception, or a list of results, each with what its extraction will do
WebSearchOutcomes ==
    {[kind |-> "raise"]}
    \cup {[kind |-> "ok", value |-> [i \in DOMAIN l |-> [url |-> i, content |-> l[i]]]] :
            l \in SeqsUpTo(WebContents, 2)}

\* lines 218-235: the results whose content is longer than the minimum
ExtractedWebContent(search_results) ==
    SelectSeq(SubSeq(search_results, 1, Min(Len(search_results), TopResults)),
              LAMBDA result : result.content > MinWebContentLength)

\* stage 2: lines 76-80 and _execute_ultra_deep_web_research, lines 205-253
ExecuteUltraDeepWebResearch ==
    /\ analysis.pc = "web"
    /\ IF StepRaises(2) THEN CallbackAborts(2)
       ELSE \E out \in WebSearchOutcomes :
            IF out.kind = "raise" \/ out.value = <<>>
            THEN StageRaises(2, "Pesquisa web ultra-profunda OBRIGATORIA falhou",
                             <<"search_with_fallback">>)
            ELSE LET search_results == out.value
                     extracted == ExtractedWebContent(search_results)
                     called == <<"search_with_fallback">>
                        \o [i \in 1..Min(Len(search_results), TopResults) |->
                                "extract_content"]
                 IN
                 IF extracted = <<>>
                 THEN StageRaises(2,
                        "Pesquisa web ultra-profunda OBRIGATORIA falhou", called)
                 ELSE StageReturns(2,
                        [total_resultados |-> Len(search_results),
                         resultados_extraidos |-> Len(extracted),
                         extracted_content |-> extracted,
                         dados_reais_web |-> TRUE], called)
    /\ UNCHANGED collector_vars

\* an entry of a list of the avatar: a dict, or something else
AvatarEntry == [is_dict |-> TRUE]
NotADict == [is_dict |-> FALSE]

\* the avatars that json.loads may return for the response of the model:
\* with no pain, one pain, or six of which the last is not a dict; with or
\* without an objection
Avatars ==
    {[dores_viscerais_com_evidencias |-> dores,
      desejos_secretos_com_fonte |-> <<AvatarEntry>>,
      objecoes_reais_identificadas |-> objecoes] :
        dores \in {<<>>, <<AvatarEntry>>,
                   [i \in 1..6 |-> IF i < 6 THEN AvatarEntry ELSE NotADict]},
        objecoes \in {<<>>, <<AvatarEntry>>}}

\* the responses of ai_manager.generate_analysis: an exception, no
\* response, a text that is not JSON, a JSON list, a JSON object
AvatarOutcomes ==
    {[kind |-> k] : k \in {"raise", "none", "invalid_json", "json_list"}}
    \cup {[kind |-> "ok", value |-> avatar] : avatar \in Avatars}

\* stage 3: lines 82-86 and _create_enhanced_avatar, lines 255-366
CreateEnhancedAvatar ==
    /\ analysis.pc = "avatar"
    /\ IF StepRaises(3) THEN CallbackAborts(3)
       ELSE \E out \in AvatarOutcomes :
            IF out.kind = "ok"
            THEN StageReturns(3, out.value, <<"generate_analysis">>)
            ELSE StageRaises(3, "Avatar ENHANCED", <<"generate_analysis">>)
    /\ UNCHANGED collector_vars

\* "while len(drivers_list) < 19", "drivers_list[:19]", lines 383-393
DriversTarget == 19

\* how many drivers the architect may return
ArchitectLengths == {1, DriversTarget - 1, DriversTarget, DriversTarget + 1}

\* the driver lists of the architect: each driver is a dict that knows its
\* place in the list; the 'roteiro_ativacao' of the first may be a text
\* instead of a dict
ArchitectLists ==
    {[i \in 1..n |-> [architect |-> i, roteiro_is_dict |-> (i > 1) \/ b]] :
        n \in ArchitectLengths, b \in BOOLEAN}

\* the responses of mental_drivers_architect.generate_complete_drivers_system:
\* an exception, None, a dict without drivers, a dict with an empty list,
\* a dict with a list of drivers
ArchitectOutcomes ==
    {[kind |-> "raise"], [kind |-> "ok", value |-> PyNone],
     [kind |-> "ok", value |-> EmptyDict],
     [kind |-> "ok", value |-> [drivers_customizados |-> <<>>]]}
    \cup {[kind |-> "ok", value |-> [drivers_customizados |-> l]] :
            l \in ArchitectLists}

\* _generate_scientific_driver, lines 689-712
GenerateScientificDriver(number) ==
    [numero |-> number,
     nome |-> <<"Driver Cientifico", number>>,
     roteiro_is_dict |-> TRUE,
     scientific_basis |-> TRUE]

\* a result that keeps the whole list (a variant of FirstDrivers)
AllDrivers(drivers_list) == drivers_list

\* line 391: drivers_list[:19]
FirstDrivers(drivers_list) ==
    SubSeq(drivers_list, 1, Min(Len(drivers_list), DriversTarget))

\* stage 4: lines 88-92 and _generate_scientific_mental_drivers, lines
\* 371-381: the call of the architect and the test of its result
GenerateScientificMentalDrivers ==
    /\ analysis.pc = "drivers"
    /\ IF StepRaises(4) THEN CallbackAborts(4)
       ELSE \E out \in ArchitectOutcomes :
            LET called == <<"generate_complete_drivers_system">> IN
            IF out.kind = "ok"
                /\ Get(out.value, "drivers_customizados", <<>>) # <<>>
            THEN analysis' = [analysis EXCEPT
                    !.pc = "drivers_loop",
                    !.callback_calls = StepCalls(4),
                    !.calls = @ \o called,
                    !.stages = Append(@, 4),
                    !.architect_drivers = out.value.drivers_customizados,
                    !.drivers_result = out.value]
            ELSE StageRaises(4, "Drivers cientificos OBRIGATORIOS falharam",
                             called)
    /\ UNCHANGED collector_vars

\* lines 383-389: one turn of the while loop, which appends to the list of
\* the architect's dict
AppendScientificDriver ==
    /\ analysis.pc = "drivers_loop"
    /\ Len(analysis.drivers_result.drivers_customizados) < DriversTarget
    /\ analysis' = [analysis EXCEPT
            !.drivers_result.drivers_customizados =
                Append(@, GenerateScientificDriver(Len(@) + 1))]
    /\ UNCHANGED collector_vars

\* lines 391-395: the loop has ended
ReturnScientificDrivers ==
    /\ analysis.pc = "drivers_loop"
    /\ ~ (Len(analysis.drivers_result.drivers_customizados) < DriversTarget)
    /\ LET drivers_result ==
            [drivers_customizados |->
                FirstDrivers(analysis.drivers_result.drivers_customizados),
             scientific_validation |-> TRUE,
             total_drivers_generated |-> DriversTarget]
       IN analysis' = [analysis EXCEPT
            !.pc = AfterStage(4),
            !.drivers_result = drivers_result,
            !.results = (4 :> drivers_result) @@ @]
    /\ UNCHANGED collector_vars

\* "[:5]", lines 410, 415, 420, 610, 620
FirstFive(list) == SubSeq(list, 1, Min(Len(list), 5))

\* entry.get(...) works on every entry of the list
AllDicts(list) == \A i \in DOMAIN list : list[i].is_dict

\* stage 5: lines 94-98 and _create_visual_arsenal, lines 401-446
CreateVisualArsenal ==
    /\ analysis.pc = "visual"
    /\ IF StepRaises(5) THEN CallbackAborts(5)
       ELSE LET avatar == analysis.results[3]
                dores == FirstFive(avatar.dores_viscerais_com_evidencias)
                desejos == FirstFive(avatar.desejos_secretos_com_fonte)
                drivers == FirstFive(analysis.results[4].drivers_customizados)
                concepts == Len(dores) + Len(desejos) + Len(drivers)
                called == <<"generate_complete_proofs_system">>
            IN
            IF ~ (AllDicts(dores) /\ AllDicts(desejos)) \/ concepts = 0
            THEN StageRaises(5, "Arsenal visual OBRIGATORIO falhou", <<>>)
            ELSE \E out \in CollaboratorOutcomes :
                IF out = "ok"
                THEN StageReturns(5, [conceitos_provados |-> concepts,
                                      arsenal_completo |-> TRUE], called)
                ELSE StageRaises(5, "Arsenal visual OBRIGATORIO falhou", called)
    /\ UNCHANGED collector_vars

\* stage 6: lines 100-104 and _create_impenetrable_anti_objection, lines
\* 448-479
CreateImpenetrableAntiObjection ==
    /\ analysis.pc = "anti_objection"
    /\ IF StepRaises(6) THEN CallbackAborts(6)
       ELSE LET objecoes == analysis.results[3].objecoes_reais_identificadas
                called == <<"generate_complete_anti_objection_system">>
            IN
            IF objecoes = <<>> \/ ~ AllDicts(objecoes)
            THEN StageRaises(6, "Sistema anti-objecao OBRIGATORIO falhou", <<>>)
            ELSE \E out \in CollaboratorOutcomes :
                IF out = "ok"
                THEN StageReturns(6, [objecoes_identificadas |-> objecoes,
                                      impenetravel |-> TRUE], called)
                ELSE StageRaises(6, "Sistema anti-objecao OBRIGATORIO falhou",
                                 called)
    /\ UNCHANGED collector_vars

\* stage 7: lines 106-110 and _create_invisible_pre_pitch, lines 481-509
CreateInvisiblePrePitch ==
    /\ analysis.pc = "pre_pitch"
    /\ IF StepRaises(7) THEN CallbackAborts(7)
       ELSE LET drivers_list == analysis.results[4].drivers_customizados
                called == <<"generate_complete_pre_pitch_system">>
            IN
            IF drivers_list = <<>>
            THEN StageRaises(7, "Pre-pitch invisivel OBRIGATORIO falhou", <<>>)
            ELSE \E out \in CollaboratorOutcomes :
                IF out = "ok"
                THEN StageReturns(7,
                        [invisivel |-> TRUE,
                         total_drivers_utilizados |-> Len(drivers_list)], called)
                ELSE StageRaises(7, "Pre-pitch invisivel OBRIGATORIO falhou",
                                 called)
    /\ UNCHANGED collector_vars

\* "horizon_months=48", line 521
HorizonMonths == 48

\* stage 8: lines 112-116 and _generate_precise_future_predictions, lines
\* 511-545
GeneratePreciseFuturePredictions ==
    /\ analysis.pc = "predictions"
    /\ IF StepRaises(8) THEN CallbackAborts(8)
       ELSE LET called == <<"predict_market_future">> IN
            IF ~ HasSegmento(analysis.data)
            THEN StageRaises(8, "Predicoes futuras OBRIGATORIAS falharam", <<>>)
            ELSE \E out \in CollaboratorOutcomes :
                IF out = "ok"
                THEN StageReturns(8, [horizon_months |-> HorizonMonths,
                                      social_data_integrated |-> TRUE], called)
                ELSE StageRaises(8, "Predicoes futuras OBRIGATORIAS falharam",
                                 called)
    /\ UNCHANGED collector_vars

\* stage 9: lines 118-122 and _execute_forensic_conversion_analysis, lines
\* 547-594, which reads every entry of the three lists of the avatar
ExecuteForensicConversionAnalysis ==
    /\ analysis.pc = "forensic"
    /\ IF StepRaises(9) THEN CallbackAborts(9)
       ELSE LET avatar == analysis.results[3] IN
            IF /\ AllDicts(avatar.dores_viscerais_com_evidencias)
               /\ AllDicts(avatar.objecoes_reais_identificadas)
               /\ AllDicts(avatar.desejos_secretos_com_fonte)
            THEN StageReturns(9,
                    [fatores_conversao_identificados |->
                        Len(avatar.dores_viscerais_com_evidencias),
                     pontos_friccao |-> Len(avatar.objecoes_reais_identificadas),
                     gatilhos_decisao |-> Len(avatar.desejos_secretos_com_fonte),
                     level |-> "FORENSIC"], <<>>)
            ELSE StageRaises(9, "Analise forense OBRIGATORIA falhou", <<>>)
    /\ UNCHANGED collector_vars

\* stage 10: lines 124-128 and _generate_visceral_scripts, lines 596-638
GenerateVisceralScripts ==
    /\ analysis.pc = "scripts"
    /\ IF StepRaises(10) THEN CallbackAborts(10)
       ELSE LET dores == FirstFive(analysis.results[3].dores_viscerais_com_evidencias)
                drivers == FirstFive(analysis.results[4].drivers_customizados)
            IN
            IF AllDicts(dores)
                /\ \A i \in DOMAIN drivers : drivers[i].roteiro_is_dict
            THEN StageReturns(10,
                    [scripts_abertura |-> Len(dores),
                     scripts_desenvolvimento |-> Len(drivers),
                     total_scripts |-> Len(dores) + Len(drivers)], <<>>)
            ELSE StageRaises(10, "Scripts viscerais OBRIGATORIOS falharam", <<>>)
    /\ UNCHANGED collector_vars

\* lines 131-147: enhanced_analysis
EnhancedAnalysis ==
    [tipo_analise |-> "ENHANCED_GIGANTE_ULTRA_DETALHADO",
     projeto_dados |-> analysis.data,
     busca_social_massiva_firecrwal |-> analysis.results[1],
     pesquisa_web_ultra_profunda |-> analysis.results[2],
     avatar_enhanced_ultra_detalhado |-> analysis.results[3],
     drivers_mentais_19_cientificos |-> analysis.results[4],
     arsenal_provas_visuais_completo |-> analysis.results[5],
     sistema_anti_objecao_impenetravel |-> analysis.results[6],
     pre_pitch_invisivel_completo |-> analysis.results[7],
     predicoes_futuro_precisas |-> analysis.results[8],
     analise_forense_conversao |-> analysis.results[9],
     scripts_viscerais_personalizados |-> analysis.results[10],
     arsenal_enhanced_completo |-> TRUE,
     fallback_mode |-> FALSE]

\* lines 130-167: the consolidation and the return
ReturnEnhancedAnalysis ==
    /\ analysis.pc = "consolidate"
    /\ analysis' = [analysis EXCEPT !.pc = "returned",
                                    !.result = EnhancedAnalysis]
    /\ UNCHANGED collector_vars

\* lines 169-172: the error is saved and a new exception is raised
AnalysisExcept ==
    /\ analysis.pc = "except"
    /\ analysis' = [analysis EXCEPT
            !.pc = "raised",
            !.calls = Append(@, "salvar_erro"),
            !.raised = [message |-> "Sistema ENHANCED indisponivel",
                        cause |-> @]]
    /\ UNCHANGED collector_vars

\* the engine is about to be invoked; the collector is idle
InitAnalysis ==
    /\ InitWith(1, "cursor", 0, {NoCallback})
    /\ ~ env.exa_available

NextAnalysis ==
    \/ GenerateEnhancedGiganticAnalysis
    \/ ExecuteFirecrwalMassiveSearch
    \/ ExecuteUltraDeepWebResearch
    \/ CreateEnhancedAvatar
    \/ GenerateScientificMentalDrivers
    \/ AppendScientificDriver
    \/ ReturnScientificDrivers
    \/ CreateVisualArsenal
    \/ CreateImpenetrableAntiObjection
    \/ CreateInvisiblePrePitch
    \/ GeneratePreciseFuturePredictions
    \/ ExecuteForensicConversionAnalysis
    \/ GenerateVisceralScripts
    \/ ReturnEnhancedAnalysis
    \/ AnalysisExcept

\* the thread that runs the analysis keeps running: a step that can be
\* taken is taken
SpecAnalysis == InitAnalysis /\ [][NextAnalysis]_vars /\ WF_vars(NextAnalysis)

\* the stages that have started are 1..n, in that order
StagesInOrder == \A i \in DOMAIN analysis.stages : analysis.stages[i] = i

\* the invariant part of C39
FailFast ==
    /\ ~ HasSegmento(analysis.data) =>
        /\ analysis.pc \in {"idle", "raised"}
        /\ analysis.calls = <<>>
        /\ analysis.callback_calls = <<>>
        /\ analysis.stages = <<>>
    /\ StagesInOrder
    /\ Len(analysis.stages) <= 10
    /\ analysis.failed # 0 =>
        /\ analysis.pc \in {"except", "raised"}
        /\ Len(analysis.stages) = analysis.failed
        /\ DOMAIN analysis.results = 1..(analysis.failed - 1)
        /\ analysis.raised # Unset
    /\ \A n \in DOMAIN analysis.results :
        "fallback" \notin DOMAIN analysis.results[n]
    /\ analysis.result # Unset <=> analysis.pc = "returned"
    /\ analysis.pc = "raised" => analysis.raised # Unset
    /\ analysis.pc = "returned" =>
        /\ analysis.failed = 0
        /\ analysis.raised = Unset
        /\ Len(analysis.stages) = 10
        /\ DOMAIN analysis.results = StageNumbers
        /\ analysis.result = EnhancedAnalysis

\* C39: generate_enhanced_gigantic_analysis raises before it calls a
\* collaborator or the progress callback when 'segmento' is missing;
\* otherwise its ten stages run in the order 1..10, and the first stage that
\* fails ends the analysis with an exception: no later stage runs, no
\* stand-in value takes the place of the stage's value, and no partial
\* analysis is returned.
C39_AnalysisFailFast ==
    /\ []FailFast
    /\ (analysis.failed # 0) ~> (analysis.pc = "raised")

C39_Witness ==
    /\ analysis.pc = "raised"
    /\ analysis.failed = 6
    /\ analysis.stages = <<1, 2, 3, 4, 5, 6>>
    /\ analysis.result = Unset

\* the invariant part of C40
NineteenDrivers ==
    4 \in DOMAIN analysis.results =>
        LET returned == analysis.results[4].drivers_customizados
            n == Len(analysis.architect_drivers)
        IN
        /\ n >= 1
        /\ Len(returned) = 19
        /\ \A i \in 1..19 :
            IF i <= n THEN returned[i] = analysis.architect_drivers[i]
            ELSE returned[i] = GenerateScientificDriver(i)
        /\ analysis.results[4].total_drivers_generated = 19

\* C40: whenever _generate_scientific_mental_drivers returns (the architect
\* produced a non-empty list of drivers, of any length), the returned list
\* has exactly 19 entries: the architect's drivers first, in their order,
\* then generated drivers numbered consecutively, or the first 19 of the
\* architect's; total_drivers_generated is 19; and the padding loop ends.
C40_ExactlyNineteenDrivers ==
    /\ []NineteenDrivers
    /\ (analysis.pc = "drivers_loop") ~> (analysis.pc # "drivers_loop")

C40_Witness ==
    /\ 4 \in DOMAIN analysis.results
    /\ Len(analysis.architect_drivers) = 1
    /\ analysis.results[4].drivers_customizados[19].numero = 19

====
